---- MODULE Spec2Model ----
(***************************************************************************)
(* pyGLFW: the callback/exception bridge, the per-window side tables and   *)
(* the wrappers around the native GLFW entry points (glfw/__init__.py).    *)
(*                                                                         *)
(* A wrapped native call is re-entrant: while it is in progress the native *)
(* library may invoke trampolines, and a callback body may itself make     *)
(* wrapped native calls.  Control is therefore modelled as a stack of      *)
(* frames: a "native" frame for a native call in progress (with the locals *)
(* of the Python wrapper that made it) and a "body" frame for a user       *)
(* callback body in progress.  The empty stack is host code outside every  *)
(* native call.                                                            *)
(***************************************************************************)
EXTENDS Integers, Sequences, FiniteSets, TLC

VARIABLES
    exc_info_from_callback,        \* _exc_info_from_callback (the pending-failure slot)
    callback_repositories,         \* the per-kind dicts of _callback_repositories
    window_user_data_repository,   \* _window_user_data_repository
    monitor_user_data_repository,  \* _monitor_user_data_repository
    joystick_user_data_repository, \* _joystick_user_data_repository
    error_callback,                \* _error_callback
    joystick_callback,             \* _joystick_callback
    ERROR_REPORTING,               \* glfw.ERROR_REPORTING
    glfw,                          \* the state of the native library
    stack,                         \* frames of calls and callback bodies in progress
    hostResult,                    \* outcome of the last call made from host code outside callbacks
    event,                         \* what the last step did (observation only)
    environ,                       \* library.py: os.environ, sys.platform, sys.frozen
    filesystem,                    \* library.py: the library files there are, and what is in them
    candidates,                    \* _load_library: candidates
    probed,                        \* _load_library: the file names version_check_callback was called with
    library_versions,              \* _load_library: library_versions
    library,                       \* library.py: the module global glfw
    loaded,                        \* files loaded into this process with ctypes.CDLL
    locator_pc,                    \* library.py: where the import of the module is
    dir_entry,                     \* _find_library_candidates: a directory entry the search meets
    glob_pc,                       \* _find_library_candidates: the library name whose glob is next
    NORMALIZE_GAMMA_RAMPS,         \* glfw.NORMALIZE_GAMMA_RAMPS
    gammaramp,                     \* a host gamma ramp passed to _GLFWgammaramp.wrap
    c_gammaramp,                   \* the _GLFWgammaramp structure
    gammaramp_unwrapped,           \* what _GLFWgammaramp.unwrap returned
    image,                         \* a host image passed to _GLFWimage.wrap
    c_image,                       \* the _GLFWimage structure
    image_unwrapped,               \* what _GLFWimage.unwrap returned
    marshal_pc                     \* which structure is being marshaled, and how far

\* the state of the library locator (glfw/library.py)
\* the state of the search for candidates in one directory entry
search_vars ==
    <<dir_entry, glob_pc>>

library_vars ==
    <<environ, filesystem, candidates, probed, library_versions, library, loaded,
      locator_pc, search_vars>>

\* the state of the structure marshalers
marshal_vars ==
    <<NORMALIZE_GAMMA_RAMPS, gammaramp, c_gammaramp, gammaramp_unwrapped,
      image, c_image, image_unwrapped, marshal_pc>>

vars ==
    <<exc_info_from_callback, callback_repositories, window_user_data_repository,
      monitor_user_data_repository, joystick_user_data_repository,
      error_callback, joystick_callback, ERROR_REPORTING, glfw, stack, hostResult, event,
      library_vars, marshal_vars>>

(***************************************************************************)
(* Bounds of the model.                                                    *)
(***************************************************************************)
\* deepest nesting of native calls and callback bodies
MaxDepth ==
    3

\* number of distinct user callback functions (f = Fn(1), g = Fn(2))
NumFunctions ==
    2

\* number of distinct errors a user callback body can raise (E1, E2)
NumErrors ==
    2

(***************************************************************************)
(* Python values.                                                          *)
(***************************************************************************)
Val(t, n) ==
    [t |-> t, n |-> n]

None ==
    Val("None", 0)

\* the int 0 the setters substitute for a None callback ("cbfun = 0")
Zero ==
    Val("int", 0)

Fn(i) ==
    Val("function", i)

UserFunctions ==
    {Fn(i) : i \in 1..NumFunctions}

\* the decorated module-level default error handler
handle_glfw_errors ==
    Val("_handle_glfw_errors", 0)

\* the closure set_drop_callback builds around the user's function
cb_wrapper(cbfun) ==
    Val("cb_wrapper", cbfun.n)

\* a host object and a ctypes.c_void_p instance
Obj(i) ==
    Val("object", i)

c_void_p(addr) ==
    Val("c_void_p", addr)

(***************************************************************************)
(* Exceptions (the pending-failure slot holds sys.exc_info()).             *)
(***************************************************************************)
Exc(type, code) ==
    [type |-> type, code |-> code]

NoExc ==
    Exc("None", 0)

UserErrors ==
    {Exc("E", i) : i \in 1..NumErrors}

TypeError ==
    Exc("TypeError", 0)

GLFWError(code) ==
    Exc("GLFWError", code)

ValueError ==
    Exc("ValueError", 0)

KeyboardInterrupt ==
    Exc("KeyboardInterrupt", 0)

(***************************************************************************)
(* Native handles and side-table keys.                                     *)
(***************************************************************************)
\* width in bits of ctypes.c_long / c_ulong and of a pointer in the model
LongBits ==
    3

\* window_addr as set_*_callback and *_window_user_pointer read it (c_long)
c_long(addr) ==
    IF addr >= 2 ^ (LongBits - 1) THEN addr - 2 ^ LongBits ELSE addr

\* window_addr as destroy_window reads it (c_ulong)
c_ulong(addr) ==
    addr % (2 ^ LongBits)

\* addresses the native library hands out for windows: one below and one
\* above the sign bit of a long
WindowAddrs ==
    {2, 2 ^ (LongBits - 1) + 2}

\* number of joystick ids a caller passes (JOYSTICK_1 is 0)
NumJoysticks ==
    2

JoystickIds ==
    {Val("int", i) : i \in 0..(NumJoysticks - 1)}

\* a monitor handle: the ctypes.POINTER(_GLFWmonitor) instance get_monitors
\* and get_primary_monitor return
Monitor(i) ==
    Val("GLFWmonitor", i)

Monitors ==
    {Monitor(1)}

\* the per-window callback kinds modelled (one repository each): the window
\* position and key callbacks stand for the setters of identical code, the
\* drop callback is the one that wraps the user's function
Kinds ==
    {"pos", "key", "drop"}

\* native error codes the library reports
NOT_INITIALIZED ==
    65537

PLATFORM_ERROR ==
    65544

ErrorCodes ==
    {NOT_INITIALIZED, PLATFORM_ERROR}

(***************************************************************************)
(* Python dicts.                                                           *)
(***************************************************************************)
EmptyDict ==
    << >>

Put(d, key, v) ==
    [x \in (DOMAIN d) \cup {key} |-> IF x = key THEN v ELSE d[x]]

Del(d, key) ==
    [x \in (DOMAIN d) \ {key} |-> d[x]]

(***************************************************************************)
(* Callables and trampolines.                                              *)
(***************************************************************************)
\* a Python callable: func, wrapped or not by callback_wrapper
Callable(decorated, func) ==
    [decorated |-> decorated, func |-> func]

\* _callback_exception_decorator(func): the callable callback_wrapper
callback_exception_decorator(func) ==
    Callable(TRUE, func)

\* a ctypes function pointer made from a Python callable
CFuncPtr(callable) ==
    [null |-> FALSE, callable |-> callable]

\* the NULL function pointer the native library starts with
NULL ==
    [null |-> TRUE, callable |-> Callable(FALSE, None)]

\* what every _GLFW*fun name is bound to after _prepare_errcheck
wrapper_cfunctype(func) ==
    CFuncPtr(callback_exception_decorator(func))

\* _default_error_callback = _GLFWerrorfun(_handle_glfw_errors), made before
\* _prepare_errcheck from the handler decorated at its definition
default_error_callback ==
    CFuncPtr(callback_exception_decorator(handle_glfw_errors))

\* an entry (cbfun, c_cbfun) of a callback repository
Entry(cbfun, c_cbfun) ==
    [cbfun |-> cbfun, c_cbfun |-> c_cbfun]

\* a module global that holds None instead of an entry (_joystick_callback)
NoEntry ==
    Entry(None, NULL)

(***************************************************************************)
(* glfw.ERROR_REPORTING: a mode, or a dict from error codes (and None) to  *)
(* modes.  True and False are written "True" and "False".                  *)
(***************************************************************************)
Mode(m) ==
    [isdict |-> FALSE, mode |-> m, entries |-> EmptyDict]

ModeDict(entries) ==
    [isdict |-> TRUE, mode |-> "", entries |-> entries]

\* the dict key None
NoneKey ==
    -1

(***************************************************************************)
(* Frames.                                                                 *)
(***************************************************************************)
\* a wrapped native call in progress, with the wrapper's locals: the window
\* and kind it is about, the callback or pointer passed, previous_callback[0]
\* (None when previous_callback is None), the value the native function will
\* return, and, for observation, what the native library held before the
\* call (the registered user function, the attached pointer)
NativeFrame(op, window, kind, arg, previous, result, expect) ==
    [type |-> "native", op |-> op, window |-> window, kind |-> kind, arg |-> arg,
     previous |-> previous, result |-> result, expect |-> expect,
     func |-> None, exc |-> NoExc]

\* a user callback body in progress; exc is an exception raised inside it
\* by a nested call and not yet handled
BodyFrame(func) ==
    [type |-> "body", op |-> "callback", window |-> 0, kind |-> "", arg |-> None,
     previous |-> None, result |-> None, expect |-> None,
     func |-> func, exc |-> NoExc]

Top ==
    stack[Len(stack)]

Pop ==
    SubSeq(stack, 1, Len(stack) - 1)

InNative ==
    stack /= << >> /\ Top.type = "native"

InBody ==
    stack /= << >> /\ Top.type = "body"

\* Python code is running and can make a call: the host program outside
\* every native call, or a callback body with no exception in flight
CanCall ==
    /\ Len(stack) < MaxDepth
    /\ \/ stack = << >>
       \/ InBody /\ Top.exc = NoExc

Result(kind, op, window, kind2, val, exc, expect) ==
    [kind |-> kind, op |-> op, window |-> window, cbkind |-> kind2,
     val |-> val, exc |-> exc, expect |-> expect]

NoResult ==
    Result("none", "", 0, "", None, NoExc, None)

\* what a step did: its name, the exception it raised or captured, and the
\* window and kind of the event delivered
Ev(what, exc, window, kind) ==
    [what |-> what, exc |-> exc, window |-> window, kind |-> kind]

\* the arguments the native library passes to a callback
Args(window, kind, error_code) ==
    [window |-> window, kind |-> kind, error_code |-> error_code]

(***************************************************************************)
(* The library locator (glfw/library.py): the module-level load sequence   *)
(* of lines 228-263, which binds the module global glfw.                   *)
(***************************************************************************)
\* number of library files there can be in the search paths; a file is named
\* by the rank of its canonical path in the order of Python strings
NumFiles ==
    3

Files ==
    1..NumFiles

\* versions a library's glfwGetVersion reports
Versions ==
    {<<2, 9, 0>>, <<3, 0, 0>>, <<3, 1, 0>>}

\* the version None
NoVersion ==
    << >>

\* what there is at a path: nothing, a file ctypes.CDLL cannot load (OSError),
\* a library without glfwGetVersion, or a library reporting a version
Absent ==
    [kind |-> "absent", version |-> NoVersion]

NotLoadable ==
    [kind |-> "not_loadable", version |-> NoVersion]

NoEntryPoint ==
    [kind |-> "no_glfwGetVersion", version |-> NoVersion]

Library(version) ==
    [kind |-> "library", version |-> version]

FileContents ==
    {Absent, NotLoadable, NoEntryPoint} \cup {Library(version) : version \in Versions}

\* a path handed to ctypes.CDLL: a file of the search paths, or one of the
\* three places tried on Windows (lines 238, 247, 254)
Path(where, n) ==
    [where |-> where, n |-> n]

FilePath(file) ==
    Path("file", file)

WindowsPaths ==
    <<Path("windows", 1), Path("windows", 2), Path("windows", 3)>>

\* os.environ.get('PYGLFW_LIBRARY', '') is empty
NoPath ==
    Path("", 0)

\* ctypes.CDLL(path) succeeds (it raises OSError otherwise)
CDLL_loads(path) ==
    IF path.where = "file"
    THEN filesystem.files[path.n].kind \in {"no_glfwGetVersion", "library"}
    ELSE path \in filesystem.dlls

\* the module global glfw: not bound yet, None, or the handle of a loaded file
Unbound ==
    [state |-> "unbound", path |-> NoPath]

NoLibrary ==
    [state |-> "None", path |-> NoPath]

CDLL(path) ==
    [state |-> "CDLL", path |-> path]

\* the import of the module ended with an OSError that line 68 let through
ImportFailed ==
    [state |-> "OSError", path |-> NoPath]

\* line 228 inside the branch of the other platforms
override_applies_off_windows ==
    environ.PYGLFW_LIBRARY /= NoPath /\ environ.platform /= "win32"

\* line 228: os.environ.get('PYGLFW_LIBRARY', '') is not empty
override_applies ==
    environ.PYGLFW_LIBRARY /= NoPath

\* lines 62 and 99: version >= (3, 0, 0), the order of Python tuples
VersionAtLeast(version, minimum) ==
    \/ version[1] > minimum[1]
    \/ version[1] = minimum[1] /\ version[2] > minimum[2]
    \/ version[1] = minimum[1] /\ version[2] = minimum[2] /\ version[3] >= minimum[3]

MinimumVersion ==
    <<3, 0, 0>>

\* line 62 with the comparison on the major number left out
is_supported_any(version) ==
    version /= NoVersion

\* line 62: version is not None and version >= (3, 0, 0)
is_supported(version) ==
    version /= NoVersion /\ VersionAtLeast(version, MinimumVersion)

\* lines 138-144: what the version checker subprocess prints for filename:
\* nothing when ctypes.CDLL raises OSError, else the repr of get_version's
\* result, a tuple or None
version_checker_output(filename) ==
    LET content == filesystem.files[filename]
    IN  CASE content.kind = "library" -> [text |-> "tuple", value |-> content.version]
          [] content.kind = "no_glfwGetVersion" -> [text |-> "None", value |-> NoVersion]
          [] OTHER -> [text |-> "", value |-> NoVersion]

\* lines 150-155: _glfw_get_version(filename): eval of the output, or None
glfw_get_version(filename) ==
    LET out == version_checker_output(filename)
    IN  IF out.text /= "" THEN out.value ELSE NoVersion

\* the order of the (version, filename) tuples library_versions.sort() uses
PairLess(a, b) ==
    \/ a.version /= b.version /\ VersionAtLeast(b.version, a.version)
    \/ a.version = b.version /\ a.filename < b.filename

\* line 67 sorting by version only: among the entries of the highest
\* version the one that was appended first
most_recent_first_probed(versions) ==
    versions[CHOOSE i \in 1..Len(versions) :
                 /\ \A j \in 1..Len(versions) :
                       VersionAtLeast(versions[i].version, versions[j].version)
                 /\ \A j \in 1..(i - 1) : versions[j].version /= versions[i].version]

\* line 68 taking the first entry of the sorted list instead of the last
most_recent_first(versions) ==
    CHOOSE pair \in {versions[i] : i \in 1..Len(versions)} :
        \A other \in {versions[i] : i \in 1..Len(versions)} :
            other = pair \/ PairLess(pair, other)

\* lines 67-68: library_versions.sort(); library_versions[-1]
most_recent(versions) ==
    CHOOSE pair \in {versions[i] : i \in 1..Len(versions)} :
        \A other \in {versions[i] : i \in 1..Len(versions)} :
            other = pair \/ PairLess(other, pair)

\* lines 27-30: the resolved paths the globs of one search directory yield,
\* here in the order of their names (the loop over set(candidates) forgets
\* the order)
glob_realpaths(files) ==
    LET list[n \in 0..NumFiles] ==
            IF n = 0 THEN << >>
            ELSE IF n \in files THEN Append(list[n - 1], n) ELSE list[n - 1]
    IN  list[NumFiles]

\* lines 56-58 and 23-32: _find_library_candidates over the search paths in
\* their order: the files there are in each, a canonical path that is a
\* candidate already being skipped (line 31)
find_library_candidates ==
    LET search_paths == filesystem.search_paths
        list[n \in 0..Len(search_paths)] ==
            IF n = 0 THEN << >>
            ELSE list[n - 1] \o
                 glob_realpaths({file \in search_paths[n] :
                                    /\ filesystem.files[file].kind /= "absent"
                                    /\ \A i \in 1..Len(list[n - 1]) :
                                          list[n - 1][i] /= file})
    IN  list[Len(search_paths)]

\* the file names in a list, set(candidates)
Set(list) ==
    {list[i] : i \in 1..Len(list)}

\* what the locator leaves alone
BridgeUnchanged ==
    UNCHANGED <<exc_info_from_callback, callback_repositories,
                window_user_data_repository, monitor_user_data_repository,
                joystick_user_data_repository, error_callback, joystick_callback,
                ERROR_REPORTING, glfw, stack, hostResult, event, marshal_vars,
                search_vars>>

\* lines 228-232: PYGLFW_LIBRARY names a path: that path is loaded, or glfw is None
load_override ==
    /\ locator_pc = "start"
    /\ override_applies
    /\ IF CDLL_loads(environ.PYGLFW_LIBRARY)
       THEN /\ library' = CDLL(environ.PYGLFW_LIBRARY)
            /\ loaded' = loaded \cup {environ.PYGLFW_LIBRARY}
       ELSE /\ library' = NoLibrary
            /\ UNCHANGED loaded
    /\ locator_pc' = "done"
    /\ UNCHANGED <<environ, filesystem, candidates, probed, library_versions>>
    /\ BridgeUnchanged

\* lines 233-256: on Windows the three places are tried in turn (the second
\* needs msvcr120.dll to load as well)
load_windows ==
    /\ locator_pc = "start"
    /\ ~override_applies
    /\ environ.platform = "win32"
    /\ IF \E i \in 1..Len(WindowsPaths) : CDLL_loads(WindowsPaths[i])
       THEN LET first == CHOOSE i \in 1..Len(WindowsPaths) :
                             /\ CDLL_loads(WindowsPaths[i])
                             /\ \A j \in 1..(i - 1) : ~CDLL_loads(WindowsPaths[j])
            IN  /\ library' = CDLL(WindowsPaths[first])
                /\ loaded' = loaded \cup {WindowsPaths[first]}
       ELSE /\ library' = NoLibrary
            /\ UNCHANGED loaded
    /\ locator_pc' = "done"
    /\ UNCHANGED <<environ, filesystem, candidates, probed, library_versions>>
    /\ BridgeUnchanged

\* lines 257-259 and 56-59: _load_library starts: the candidates are found
load_library ==
    /\ locator_pc = "start"
    /\ ~override_applies
    /\ environ.platform /= "win32"
    /\ ~environ.frozen
    /\ candidates' = find_library_candidates
    /\ library_versions' = << >>
    /\ locator_pc' = "probing"
    /\ UNCHANGED <<environ, filesystem, probed, library, loaded>>
    /\ BridgeUnchanged

\* lines 60-63: one turn of the loop over set(candidates), in any order
version_check(filename) ==
    /\ locator_pc = "probing"
    /\ filename \in Set(candidates) \ probed
    /\ probed' = probed \cup {filename}
    /\ library_versions' =
           IF is_supported(glfw_get_version(filename))
           THEN Append(library_versions,
                       [version |-> glfw_get_version(filename), filename |-> filename])
           ELSE library_versions
    /\ UNCHANGED <<environ, filesystem, candidates, library, loaded, locator_pc>>
    /\ BridgeUnchanged

\* lines 65-68: after the loop: None, or the last of the sorted list is loaded
load_most_recent ==
    /\ locator_pc = "probing"
    /\ probed = Set(candidates)
    /\ IF library_versions = << >>
       THEN /\ library' = NoLibrary
            /\ UNCHANGED loaded
       ELSE LET path == FilePath(most_recent(library_versions).filename)
            IN  IF CDLL_loads(path)
                THEN /\ library' = CDLL(path)
                     /\ loaded' = loaded \cup {path}
                ELSE /\ library' = ImportFailed
                     /\ UNCHANGED loaded
    /\ locator_pc' = "done"
    /\ UNCHANGED <<environ, filesystem, candidates, probed, library_versions>>
    /\ BridgeUnchanged

\* lines 260-263 and 71-101: in a frozen executable the first candidate that
\* loads is loaded into the process, and kept if it reports a version >= 3.0.0
load_first_library ==
    /\ locator_pc = "start"
    /\ ~override_applies
    /\ environ.platform /= "win32"
    /\ environ.frozen
    /\ candidates' = find_library_candidates
    /\ LET list == find_library_candidates
           loadable == {i \in 1..Len(list) : CDLL_loads(FilePath(list[i]))}
       IN  IF loadable = {}
           THEN /\ library' = NoLibrary
                /\ UNCHANGED loaded
           ELSE LET first == list[CHOOSE i \in loadable : \A j \in loadable : i <= j]
                IN  /\ loaded' = loaded \cup {FilePath(first)}
                    /\ library' =
                           IF is_supported(filesystem.files[first].version)
                           THEN CDLL(FilePath(first))
                           ELSE NoLibrary
    /\ locator_pc' = "done"
    /\ UNCHANGED <<environ, filesystem, probed, library_versions>>
    /\ BridgeUnchanged

(***************************************************************************)
(* _find_library_candidates (lines 17-48) on one directory entry.  A file  *)
(* name is the sequence of its characters.                                 *)
(***************************************************************************)
\* the prefix 'lib' of lines 34-35
lib ==
    <<"l", "i", "b">>

\* line 258: ['glfw', 'glfw3']
library_names ==
    << <<"g", "l", "f", "w">>, <<"g", "l", "f", "w", "3">> >>

\* line 258: ['.so', '.dylib']
library_file_extensions ==
    << <<".", "s", "o">>, <<".", "d", "y", "l", "i", "b">> >>

\* line 45: the characters of '0123456789.'
version_characters ==
    {"0", "1", "2", "3", "4", "5", "6", "7", "8", "9", "."}

\* str.startswith and str.endswith
startswith(string, prefix) ==
    /\ Len(prefix) <= Len(string)
    /\ SubSeq(string, 1, Len(prefix)) = prefix

endswith(string, suffix) ==
    /\ Len(suffix) <= Len(string)
    /\ SubSeq(string, Len(string) - Len(suffix) + 1, Len(string)) = suffix

\* lines 27-28: the entry's name matches the glob '*' + library_name + '.*'
\* (names that begin with a dot, which '*' does not match, are not modelled)
glob_matches(name, library_name) ==
    \E i \in 1..Len(name) :
        /\ i + Len(library_name) <= Len(name)
        /\ SubSeq(name, i, i + Len(library_name)) = library_name \o <<".">>

\* lines 33-38: what is left of the base name behind 'lib' + library_name or
\* behind library_name; skip when it begins with neither
basename_end(basename, library_name) ==
    IF startswith(basename, lib \o library_name)
    THEN [skip |-> FALSE,
          end |-> SubSeq(basename, Len(lib \o library_name) + 1, Len(basename))]
    ELSE IF startswith(basename, library_name)
    THEN [skip |-> FALSE, end |-> SubSeq(basename, Len(library_name) + 1, Len(basename))]
    ELSE [skip |-> TRUE, end |-> << >>]

\* lines 43-46 left out: only a name that goes on with the extension counts
appends_candidate_at_start_only(end, file_extension) ==
    /\ startswith(end, file_extension)
    /\ \/ Len(end) = Len(file_extension)
       \/ end[Len(file_extension) + 1] = "."

\* lines 40-46: one turn of the loop over the extensions appends the file
appends_candidate(end, file_extension) ==
    IF startswith(end, file_extension)
    THEN \/ Len(end) = Len(file_extension)
         \/ end[Len(file_extension) + 1] = "."
    ELSE IF endswith(end, file_extension)
    THEN \A i \in 1..(Len(end) - Len(file_extension)) : end[i] \in version_characters
    ELSE FALSE

\* lines 39-46: the loop over the extensions: the list with filename
\* appended once for every extension that accepts it
candidates_appended(list, filename, end) ==
    LET appended[n \in 0..Len(library_file_extensions)] ==
            IF n = 0 THEN list
            ELSE IF appends_candidate(end, library_file_extensions[n])
                 THEN Append(appended[n - 1], filename)
                 ELSE appended[n - 1]
    IN  appended[Len(library_file_extensions)]

\* lines 26-46 for one library name and one entry of the directory: the
\* entry is met when its name matches the glob; its resolved path is
\* skipped when it is a candidate already
glob_library_name ==
    /\ glob_pc \in 1..Len(library_names)
    /\ LET library_name == library_names[glob_pc]
           filename == dir_entry.realpath
       IN  candidates' =
               IF ~glob_matches(dir_entry.name, library_name) THEN candidates
               ELSE IF \E i \in 1..Len(candidates) : candidates[i] = filename
               THEN candidates
               ELSE IF basename_end(filename, library_name).skip THEN candidates
               ELSE candidates_appended(candidates, filename,
                                        basename_end(filename, library_name).end)
    /\ glob_pc' = glob_pc + 1
    /\ UNCHANGED <<environ, filesystem, probed, library_versions, library, loaded,
                   locator_pc, dir_entry>>
    /\ UNCHANGED <<exc_info_from_callback, callback_repositories,
                   window_user_data_repository, monitor_user_data_repository,
                   joystick_user_data_repository, error_callback, joystick_callback,
                   ERROR_REPORTING, glfw, stack, hostResult, event, marshal_vars>>

\* no directory entry is being looked at
NoSearch ==
    /\ dir_entry = [name |-> << >>, realpath |-> << >>]
    /\ glob_pc = 0

\* the locator has not run
LocatorStart ==
    /\ candidates = << >>
    /\ probed = {}
    /\ library_versions = << >>
    /\ library = Unbound
    /\ loaded = {}
    /\ locator_pc = "start"

\* the locator has run and found the library: glfw/__init__.py goes on (line 42)
LibraryFound ==
    /\ environ = [PYGLFW_LIBRARY |-> NoPath, platform |-> "linux", frozen |-> FALSE]
    /\ filesystem = [files |-> [file \in Files |->
                                   IF file = 1 THEN Library(<<3, 1, 0>>) ELSE Absent],
                     dlls |-> {},
                     search_paths |-> <<Files>>]
    /\ candidates = <<1>>
    /\ probed = {1}
    /\ library_versions = <<[version |-> <<3, 1, 0>>, filename |-> 1]>>
    /\ library = CDLL(FilePath(1))
    /\ loaded = {FilePath(1)}
    /\ locator_pc = "done"
    /\ NoSearch

(***************************************************************************)
(* The structure marshalers: _GLFWgammaramp and _GLFWimage (lines 150-268). *)
(***************************************************************************)
\* the factor of lines 186-188 and 206-208
USHORT_MAX ==
    65535

\* widths in bits of ctypes.c_ushort and ctypes.c_ubyte
UShortBits ==
    16

UByteBits ==
    8

\* a gamma ramp sample: the number num / den (an integer has den = 1, a
\* float is kept as an exact fraction)
Sample(num, den) ==
    [num |-> num, den |-> den]

\* int(value): the integer part, towards zero
int(value) ==
    IF value.num >= 0 THEN value.num \div value.den ELSE -((-value.num) \div value.den)

\* the value a ctypes.c_ushort array element holds after an int is assigned
c_ushort(n) ==
    n % (2 ^ UShortBits)

\* the value a ctypes.c_ubyte array element holds after an int is assigned
c_ubyte(n) ==
    n % (2 ^ UByteBits)

\* lines 186-188 left out: the sample is stored as it is
wrap_sample_unscaled(value, normalize) ==
    c_ushort(int(value))

\* lines 185-192: the array element written for a host sample
wrap_sample(value, normalize) ==
    IF normalize
    THEN c_ushort(int(Sample(value.num * USHORT_MAX, value.den)))
    ELSE c_ushort(int(value))

\* line 205 left out: the sample is always divided
unwrap_sample_always_divided(n, normalize) ==
    Sample(n, USHORT_MAX)

\* lines 205-208: the host sample read from an array element
unwrap_sample(n, normalize) ==
    IF normalize THEN Sample(n, USHORT_MAX) ELSE Sample(n, 1)

Min(a, b) ==
    IF a <= b THEN a ELSE b

\* line 179 taking the length of the red channel for all three
wrap_size_of_red(ramp) ==
    Len(ramp.red)

\* line 179: size = min(len(red), len(green), len(blue))
wrap_size(ramp) ==
    Min(Len(ramp.red), Min(Len(ramp.green), Len(ramp.blue)))

\* the structure after _GLFWgammaramp.__init__ (lines 164-172)
GammaRampInit ==
    [size |-> 0, red_array |-> << >>, green_array |-> << >>, blue_array |-> << >>]

\* _GLFWgammaramp.wrap (lines 174-196); red, green and blue point at the
\* arrays, which array_type() creates zeroed
GLFWgammaramp_wrap(ramp, normalize) ==
    LET size == wrap_size(ramp)
        array(channel) ==
            [i \in 1..size |->
                IF i <= Len(channel) THEN wrap_sample(channel[i], normalize) ELSE 0]
    IN  [size |-> size,
         red_array |-> array(ramp.red),
         green_array |-> array(ramp.green),
         blue_array |-> array(ramp.blue)]

\* _GLFWgammaramp.unwrap (lines 198-209)
GLFWgammaramp_unwrap(struct, normalize) ==
    LET list(array) == [i \in 1..struct.size |-> unwrap_sample(array[i], normalize)]
    IN  [red |-> list(struct.red_array),
         green |-> list(struct.green_array),
         blue |-> list(struct.blue_array)]

\* the numerator of |a - b| over the denominator a.den * b.den
SampleDifference(a, b) ==
    LET d == a.num * b.den - b.num * a.den
    IN  IF d >= 0 THEN d ELSE -d

\* the structure after _GLFWimage.__init__ (lines 233-238)
ImageInit ==
    [width |-> 0, height |-> 0, shape |-> <<0, 0>>, pixels_array |-> << >>]

\* line 254 with width and height exchanged
array_shape_transposed(width, height) ==
    <<width, height>>

\* line 254: ctypes.c_ubyte * 4 * width * height is an array of height
\* arrays of width arrays of 4 bytes
array_shape(width, height) ==
    <<height, width>>

\* where element [i][j][k] of an array of that shape lies in the memory of
\* the array (indices from 0, position from 1)
pixel_offset(i, j, k, shape) ==
    (i * shape[2] + j) * 4 + k + 1

\* _GLFWimage.wrap for a (width, height, pixels) tuple (lines 253-261);
\* pixels points at pixels_array, whose type keeps height and width
GLFWimage_wrap(img) ==
    LET shape == array_shape(img.width, img.height)
        written == (0..(img.height - 1)) \X (0..(img.width - 1)) \X (0..3)
        at(n) == {t \in written : pixel_offset(t[1], t[2], t[3], shape) = n}
    IN  [width |-> img.width,
         height |-> img.height,
         shape |-> shape,
         pixels_array |->
            [n \in 1..(4 * img.width * img.height) |->
                IF at(n) = {} THEN 0
                ELSE LET t == CHOOSE t \in at(n) : TRUE
                     IN  c_ubyte(img.pixels[t[1] + 1][t[2] + 1][t[3] + 1])]]

\* _GLFWimage.unwrap (lines 263-268): the nested lists read from pixels_array
GLFWimage_unwrap(struct) ==
    [width |-> struct.width,
     height |-> struct.height,
     pixels |->
        [i \in 1..struct.shape[1] |->
            [j \in 1..struct.shape[2] |->
                [k \in 1..4 |->
                    struct.pixels_array[pixel_offset(i - 1, j - 1, k - 1, struct.shape)]]]]]

\* what the marshalers leave alone
MarshalUnchanged ==
    UNCHANGED <<exc_info_from_callback, callback_repositories,
                window_user_data_repository, monitor_user_data_repository,
                joystick_user_data_repository, error_callback, joystick_callback,
                ERROR_REPORTING, glfw, stack, hostResult, event, library_vars,
                NORMALIZE_GAMMA_RAMPS, gammaramp, image>>

\* gammaramp is wrapped (set_gamma_ramp, lines 1125-1126)
gammaramp_wrap ==
    /\ marshal_pc = "gammaramp"
    /\ c_gammaramp' = GLFWgammaramp_wrap(gammaramp, NORMALIZE_GAMMA_RAMPS)
    /\ marshal_pc' = "gammaramp_wrapped"
    /\ UNCHANGED <<gammaramp_unwrapped, c_image, image_unwrapped>>
    /\ MarshalUnchanged

\* the structure is unwrapped
gammaramp_unwrap ==
    /\ marshal_pc = "gammaramp_wrapped"
    /\ gammaramp_unwrapped' = GLFWgammaramp_unwrap(c_gammaramp, NORMALIZE_GAMMA_RAMPS)
    /\ marshal_pc' = "gammaramp_unwrapped"
    /\ UNCHANGED <<c_gammaramp, c_image, image_unwrapped>>
    /\ MarshalUnchanged

\* image is wrapped (create_cursor, lines 2531-2532)
image_wrap ==
    /\ marshal_pc = "image"
    /\ c_image' = GLFWimage_wrap(image)
    /\ marshal_pc' = "image_wrapped"
    /\ UNCHANGED <<c_gammaramp, gammaramp_unwrapped, image_unwrapped>>
    /\ MarshalUnchanged

\* the structure is unwrapped
image_unwrap ==
    /\ marshal_pc = "image_wrapped"
    /\ image_unwrapped' = GLFWimage_unwrap(c_image)
    /\ marshal_pc' = "image_unwrapped"
    /\ UNCHANGED <<c_gammaramp, gammaramp_unwrapped, c_image>>
    /\ MarshalUnchanged

NoRamp ==
    [red |-> << >>, green |-> << >>, blue |-> << >>]

NoImage ==
    [width |-> 0, height |-> 0, pixels |-> << >>]

\* no structure is being marshaled
NoMarshal ==
    /\ NORMALIZE_GAMMA_RAMPS = TRUE
    /\ gammaramp = NoRamp
    /\ c_gammaramp = GammaRampInit
    /\ gammaramp_unwrapped = NoRamp
    /\ image = NoImage
    /\ c_image = ImageInit
    /\ image_unwrapped = NoImage
    /\ marshal_pc = "idle"

(***************************************************************************)
(* The native library.                                                     *)
(***************************************************************************)
\* state of the library when the module has been imported: not initialised,
\* no window, the default error callback registered (line 846), every user
\* pointer NULL
GlfwInit ==
    [initialized |-> FALSE,
     windows |-> {},
     callbacks |-> [w \in WindowAddrs |-> [k \in Kinds |-> NULL]],
     errorfun |-> default_error_callback,
     joystickfun |-> NULL,
     userptr |-> [w \in WindowAddrs |-> 0],
     monitor_userptr |-> [m \in Monitors |-> 0],
     joystick_userptr |-> [j \in JoystickIds |-> 0]]

\* the host function behind a registered function pointer, as the native
\* "returns the previous callback" convention would report it
UserFunctionOf(c_cbfun) ==
    IF c_cbfun.null \/ c_cbfun.callable.func = Zero THEN None
    ELSE IF c_cbfun.callable.func.t = "cb_wrapper" THEN Fn(c_cbfun.callable.func.n)
    ELSE c_cbfun.callable.func

\* glfw/__init__.py has been imported
ModuleImported ==
    /\ exc_info_from_callback = NoExc
    /\ callback_repositories = [k \in Kinds |-> EmptyDict]
    /\ window_user_data_repository = EmptyDict
    /\ monitor_user_data_repository = EmptyDict
    /\ joystick_user_data_repository = EmptyDict
    /\ error_callback = Entry(handle_glfw_errors, default_error_callback)
    /\ joystick_callback = NoEntry
    /\ ERROR_REPORTING = Mode("warn")
    /\ glfw = GlfwInit
    /\ stack = << >>
    /\ hostResult = NoResult
    /\ event = Ev("import", NoExc, 0, "")

\* the package has been imported: the locator found the library
Init ==
    /\ ModuleImported
    /\ LibraryFound
    /\ NoMarshal

(***************************************************************************)
(* The default error handler (_handle_glfw_errors, body).                  *)
(***************************************************************************)
\* lines 825-828 in the other order: the entry for None wins over the entry
\* for the error code
error_reporting_default_first(error_code) ==
    IF ERROR_REPORTING.isdict
    THEN IF NoneKey \in DOMAIN ERROR_REPORTING.entries
         THEN ERROR_REPORTING.entries[NoneKey]
         ELSE IF error_code \in DOMAIN ERROR_REPORTING.entries
              THEN ERROR_REPORTING.entries[error_code]
              ELSE "None"
    ELSE ERROR_REPORTING.mode

\* lines 823-830: the reporting mode that applies to error_code now
error_reporting(error_code) ==
    IF ERROR_REPORTING.isdict
    THEN IF error_code \in DOMAIN ERROR_REPORTING.entries
         THEN ERROR_REPORTING.entries[error_code]
         ELSE IF NoneKey \in DOMAIN ERROR_REPORTING.entries
              THEN ERROR_REPORTING.entries[NoneKey]
              ELSE "None"
    ELSE ERROR_REPORTING.mode

\* lines 831-840: what the handler does: the exception it raises (NoExc when
\* it returns normally) and what it emits
handle_glfw_errors_raises(error_code) ==
    LET mode == error_reporting(error_code)
    IN  IF mode \in {"raise", "exception", "True"} THEN GLFWError(error_code)
        ELSE IF mode \in {"warn", "warning", "log", "ignore", "False"} THEN NoExc
        ELSE ValueError

handle_glfw_errors_emits(error_code) ==
    LET mode == error_reporting(error_code)
    IN  IF mode \in {"warn", "warning"} THEN "error_warned"
        ELSE IF mode = "log" THEN "error_logged"
        ELSE IF mode \in {"ignore", "False"} THEN "error_ignored"
        ELSE "error_raised"

(***************************************************************************)
(* callback_wrapper (lines 603-615).                                       *)
(***************************************************************************)
\* line 605 left out: the wrapper never returns early
callback_wrapper_never_suppresses(callable) ==
    FALSE

\* line 605 present in the default error handler only
callback_wrapper_suppresses_handler_only(callable) ==
    /\ callable.decorated
    /\ callable.func = handle_glfw_errors
    /\ exc_info_from_callback /= NoExc

\* line 813 left out: the default error handler is not decorated, so line
\* 605 never applies to it
callback_wrapper_suppresses_user_callbacks(callable) ==
    /\ callable.decorated
    /\ callable.func /= handle_glfw_errors
    /\ exc_info_from_callback /= NoExc

\* line 605: a decorated callable does nothing while a failure is pending
callback_wrapper_suppresses(callable) ==
    callable.decorated /\ exc_info_from_callback /= NoExc

\* line 615 left out: the exception is swallowed
callback_wrapper_drops(exc) ==
    exc_info_from_callback

\* lines 612-615: the slot after the wrapped function raised exc
\* (KeyboardInterrupt and SystemExit are re-raised, everything else is stored)
callback_wrapper_captures(exc) ==
    IF exc = KeyboardInterrupt THEN exc_info_from_callback ELSE exc

\* the native library calls a function pointer it holds, with args
callback_wrapper(callable, args) ==
    /\ InNative
    /\ IF callback_wrapper_suppresses(callable)
       THEN /\ event' = Ev("suppressed", NoExc, args.window, args.kind)
            /\ UNCHANGED <<exc_info_from_callback, stack>>
       ELSE IF callable.func = Zero
       THEN \* func(*args) with func = 0: 'int' object is not callable
            /\ exc_info_from_callback' = callback_wrapper_captures(TypeError)
            /\ event' = Ev("not_callable", TypeError, args.window, args.kind)
            /\ UNCHANGED stack
       ELSE IF callable.func = handle_glfw_errors
       THEN /\ exc_info_from_callback' =
                  IF handle_glfw_errors_raises(args.error_code) = NoExc
                  THEN exc_info_from_callback
                  ELSE callback_wrapper_captures(handle_glfw_errors_raises(args.error_code))
            /\ event' = Ev(handle_glfw_errors_emits(args.error_code),
                           handle_glfw_errors_raises(args.error_code), 0, "")
            /\ UNCHANGED stack
       ELSE \* a user function: its body starts
            /\ Len(stack) < MaxDepth
            /\ stack' = Append(stack, BodyFrame(callable.func))
            /\ event' = Ev("run", NoExc, args.window, args.kind)
            /\ UNCHANGED exc_info_from_callback
    /\ UNCHANGED <<callback_repositories, window_user_data_repository,
                   monitor_user_data_repository, joystick_user_data_repository,
                   error_callback, joystick_callback, ERROR_REPORTING, glfw,
                   hostResult, library_vars, marshal_vars>>

\* the user function returns (line 611)
callback_body_returns ==
    /\ InBody
    /\ Top.exc = NoExc
    /\ stack' = Pop
    /\ event' = Ev("body_returned", NoExc, 0, "")
    /\ UNCHANGED <<exc_info_from_callback, callback_repositories,
                   window_user_data_repository, monitor_user_data_repository,
                   joystick_user_data_repository, error_callback, joystick_callback,
                   ERROR_REPORTING, glfw, hostResult, library_vars, marshal_vars>>

\* the user function raises exc itself (lines 612-615)
callback_body_raises(exc) ==
    /\ InBody
    /\ Top.exc = NoExc
    /\ stack' = Pop
    /\ exc_info_from_callback' = callback_wrapper_captures(exc)
    /\ event' = Ev("body_raised", exc, 0, "")
    /\ UNCHANGED <<callback_repositories, window_user_data_repository,
                   monitor_user_data_repository, joystick_user_data_repository,
                   error_callback, joystick_callback, ERROR_REPORTING, glfw,
                   hostResult, library_vars, marshal_vars>>

\* the user function catches the exception a nested call raised in it
callback_body_handles ==
    /\ InBody
    /\ Top.exc /= NoExc
    /\ stack' = [stack EXCEPT ![Len(stack)].exc = NoExc]
    /\ event' = Ev("handled", Top.exc, 0, "")
    /\ UNCHANGED <<exc_info_from_callback, callback_repositories,
                   window_user_data_repository, monitor_user_data_repository,
                   joystick_user_data_repository, error_callback, joystick_callback,
                   ERROR_REPORTING, glfw, hostResult, library_vars, marshal_vars>>

\* the user function lets the exception a nested call raised in it escape
callback_body_propagates ==
    /\ InBody
    /\ Top.exc /= NoExc
    /\ stack' = Pop
    /\ exc_info_from_callback' = callback_wrapper_captures(Top.exc)
    /\ event' = Ev("body_raised", Top.exc, 0, "")
    /\ UNCHANGED <<callback_repositories, window_user_data_repository,
                   monitor_user_data_repository, joystick_user_data_repository,
                   error_callback, joystick_callback, ERROR_REPORTING, glfw,
                   hostResult, library_vars, marshal_vars>>

(***************************************************************************)
(* What the native library does while one of its functions is running.     *)
(***************************************************************************)
\* functions that clear the callbacks first and so deliver no window event
NoEventOps ==
    {"destroy_window", "terminate", "init"}

glfw_window_event(window, kind) ==
    /\ InNative
    /\ Top.op \notin NoEventOps
    /\ window \in glfw.windows
    /\ ~glfw.callbacks[window][kind].null
    /\ callback_wrapper(glfw.callbacks[window][kind].callable, Args(window, kind, 0))

glfw_joystick_event ==
    /\ InNative
    /\ Top.op \notin NoEventOps
    /\ ~glfw.joystickfun.null
    /\ callback_wrapper(glfw.joystickfun.callable, Args(0, "joystick", 0))

glfw_error(error_code) ==
    /\ InNative
    /\ ~glfw.errorfun.null
    /\ callback_wrapper(glfw.errorfun.callable, Args(0, "error", error_code))

(***************************************************************************)
(* The wrappers, up to and including their native call.                    *)
(***************************************************************************)
\* the wrapper has reached its native call: the call is in progress
Enter(frame) ==
    /\ CanCall
    /\ stack' = Append(stack, frame)
    /\ hostResult' =
           IF stack = << >>
           THEN Result("running", frame.op, frame.window, frame.kind, None, NoExc,
                       frame.expect)
           ELSE hostResult
    /\ event' = Ev("call", NoExc, 0, "")

\* init(), lines 722-732
init ==
    /\ ~glfw.initialized
    /\ glfw' = [glfw EXCEPT !.initialized = TRUE]
    /\ Enter(NativeFrame("init", 0, "", None, None, Val("int", 1), None))
    /\ UNCHANGED <<exc_info_from_callback, callback_repositories,
                   window_user_data_repository, monitor_user_data_repository,
                   joystick_user_data_repository, error_callback, joystick_callback,
                   ERROR_REPORTING, library_vars, marshal_vars>>

\* poll_events(), lines 1765-1772
poll_events ==
    /\ glfw.initialized
    /\ Enter(NativeFrame("poll_events", 0, "", None, None, None, None))
    /\ UNCHANGED <<exc_info_from_callback, callback_repositories,
                   window_user_data_repository, monitor_user_data_repository,
                   joystick_user_data_repository, error_callback, joystick_callback,
                   ERROR_REPORTING, glfw, library_vars, marshal_vars>>

\* create_window(...), lines 1173-1181; the library returns a new window at addr
create_window(addr) ==
    /\ glfw.initialized
    /\ addr \in WindowAddrs \ glfw.windows
    /\ glfw' = [glfw EXCEPT !.windows = @ \cup {addr}]
    /\ Enter(NativeFrame("create_window", addr, "", None, None,
                        Val("GLFWwindow", addr), None))
    /\ UNCHANGED <<exc_info_from_callback, callback_repositories,
                   window_user_data_repository, monitor_user_data_repository,
                   joystick_user_data_repository, error_callback, joystick_callback,
                   ERROR_REPORTING, library_vars, marshal_vars>>

\* destroy_window(window), line 1192: the native call; the library clears the
\* window's callbacks and frees it
destroy_window(window) ==
    /\ glfw.initialized
    /\ window \in glfw.windows
    /\ glfw' = [glfw EXCEPT !.windows = @ \ {window},
                            !.callbacks[window] = [k \in Kinds |-> NULL],
                            !.userptr[window] = 0]
    /\ Enter(NativeFrame("destroy_window", window, "", None, None, None, None))
    /\ UNCHANGED <<exc_info_from_callback, callback_repositories,
                   window_user_data_repository, monitor_user_data_repository,
                   joystick_user_data_repository, error_callback, joystick_callback,
                   ERROR_REPORTING, library_vars, marshal_vars>>

\* lines 1193-1199: destroy_window after its native call returned
destroy_window_cleanup(repos, window) ==
    LET window_addr == c_ulong(window)
    IN  [k \in Kinds |-> Del(repos[k], window_addr)]

\* the body shared by set_window_pos_callback, set_key_callback and the other
\* setters of identical code (lines 1512-1532, 1891-1911, ...): cbfun is the
\* user's function or None; fun is what is wrapped and stored
set_window_callback(kind, window, cbfun, fun) ==
    LET window_addr == c_long(window)
        repository == callback_repositories[kind]
        previous == IF window_addr \in DOMAIN repository
                    THEN repository[window_addr].cbfun
                    ELSE None
        c_cbfun == wrapper_cfunctype(fun)
    IN  /\ glfw.initialized
        /\ window \in glfw.windows
        /\ callback_repositories' =
               [callback_repositories EXCEPT
                    ![kind] = Put(repository, window_addr, Entry(fun, c_cbfun))]
        /\ glfw' = [glfw EXCEPT !.callbacks[window][kind] = c_cbfun]
        /\ Enter(NativeFrame("set_window_callback", window, kind, cbfun, previous, None,
                             UserFunctionOf(glfw.callbacks[window][kind])))
        /\ UNCHANGED <<exc_info_from_callback, window_user_data_repository,
                       monitor_user_data_repository, joystick_user_data_repository,
                       error_callback, joystick_callback, ERROR_REPORTING,
                       library_vars, marshal_vars>>

\* lines 1525-1526: "if cbfun is None: cbfun = 0"
none_to_zero(cbfun) ==
    IF cbfun = None THEN Zero ELSE cbfun

set_window_pos_callback(window, cbfun) ==
    set_window_callback("pos", window, cbfun, none_to_zero(cbfun))

set_key_callback(window, cbfun) ==
    set_window_callback("key", window, cbfun, none_to_zero(cbfun))

\* set_drop_callback, lines 2329-2354: a user function is wrapped in cb_wrapper
set_drop_callback(window, cbfun) ==
    set_window_callback("drop", window, cbfun,
                        IF cbfun = None THEN Zero ELSE cb_wrapper(cbfun))

\* lines 1531-1532 (and the same in every setter): the value returned
previous_callback_returned(previous) ==
    IF previous /= None /\ previous /= Zero THEN previous ELSE None

\* set_error_callback(cbfun), lines 847-865
set_error_callback(cbfun) ==
    LET previous == error_callback.cbfun
        entry == IF cbfun = None
                 THEN Entry(handle_glfw_errors, default_error_callback)
                 ELSE Entry(cbfun, wrapper_cfunctype(cbfun))
    IN  /\ error_callback' = entry
        /\ glfw' = [glfw EXCEPT !.errorfun = entry.c_cbfun]
        /\ Enter(NativeFrame("set_error_callback", 0, "", cbfun, previous, None,
                             IF glfw.errorfun = default_error_callback
                             THEN None ELSE UserFunctionOf(glfw.errorfun)))
        /\ UNCHANGED <<exc_info_from_callback, callback_repositories,
                       window_user_data_repository, monitor_user_data_repository,
                       joystick_user_data_repository, joystick_callback,
                       ERROR_REPORTING, library_vars, marshal_vars>>

\* lines 864-865
error_callback_returned(previous) ==
    IF previous /= None /\ previous /= handle_glfw_errors THEN previous ELSE None

\* line 2450: the previous callback set_joystick_callback goes by
joystick_previous_callback ==
    error_callback

\* set_joystick_callback(cbfun), lines 2442-2458
set_joystick_callback(cbfun) ==
    LET previous == joystick_previous_callback.cbfun
        fun == none_to_zero(cbfun)
        c_cbfun == wrapper_cfunctype(fun)
    IN  /\ glfw.initialized
        /\ joystick_callback' = Entry(fun, c_cbfun)
        /\ glfw' = [glfw EXCEPT !.joystickfun = c_cbfun]
        /\ Enter(NativeFrame("set_joystick_callback", 0, "", cbfun, previous, None,
                             UserFunctionOf(glfw.joystickfun)))
        /\ UNCHANGED <<exc_info_from_callback, callback_repositories,
                       window_user_data_repository, monitor_user_data_repository,
                       joystick_user_data_repository, error_callback, ERROR_REPORTING,
                       library_vars, marshal_vars>>

(***************************************************************************)
(* User pointers (lines 1462-1505).                                        *)
(***************************************************************************)
\* number of distinct host objects and of distinct raw pointers a caller passes
NumObjects ==
    2

NumPointers ==
    2

HostObjects ==
    {Obj(i) : i \in 1..NumObjects}

\* raw pointers: c_void_p instances with a non-null address
RawPointers ==
    {c_void_p(i) : i \in 1..NumPointers}

\* the machine word of ctypes.cast(ctypes.pointer(ctypes.py_object(obj)),
\* c_void_p): the address of a fresh box, no address a caller passes
BoxAddr(obj) ==
    NumPointers + obj.n

\* line 1477: isinstance(pointer, ctypes.c_void_p)
is_c_void_p(pointer) ==
    pointer.t = "c_void_p"

\* line 1478 left out: the entry never says "wrapped"
user_pointer_data_never_wrapped(pointer) ==
    [wrapped |-> FALSE, pointer |-> pointer]

\* lines 1476-1480: data, the side-table entry (is_wrapped_py_object, pointer)
user_pointer_data(pointer) ==
    IF ~is_c_void_p(pointer)
    THEN [wrapped |-> TRUE, pointer |-> pointer]
    ELSE [wrapped |-> FALSE, pointer |-> pointer]

\* the test of line 1477 left out: a raw pointer is boxed like a host object
user_pointer_word_always_boxed(pointer) ==
    BoxAddr(pointer)

\* lines 1476-1480: the word handed to the native library
user_pointer_word(pointer) ==
    IF ~is_c_void_p(pointer) THEN BoxAddr(pointer) ELSE pointer.n

\* a c_void_p result as ctypes returns it: None for NULL, else the address
c_void_p_result(word) ==
    IF word = 0 THEN None ELSE Val("int", word)

\* what the caller attached to the window last, going by the word the native
\* library holds for it: the host object whose box it is, else the address
attached_user_pointer(window) ==
    IF \E obj \in HostObjects : BoxAddr(obj) = glfw.userptr[window]
    THEN CHOOSE obj \in HostObjects : BoxAddr(obj) = glfw.userptr[window]
    ELSE c_void_p_result(glfw.userptr[window])

\* set_window_user_pointer(window, pointer), lines 1466-1485
set_window_user_pointer(window, pointer) ==
    LET window_addr == c_long(window)
    IN  /\ glfw.initialized
        /\ window \in glfw.windows
        /\ window_user_data_repository' =
               Put(window_user_data_repository, window_addr, user_pointer_data(pointer))
        /\ glfw' = [glfw EXCEPT !.userptr[window] = user_pointer_word(pointer)]
        /\ Enter(NativeFrame("set_window_user_pointer", window, "", pointer, None, None,
                             None))
        /\ UNCHANGED <<exc_info_from_callback, callback_repositories,
                       monitor_user_data_repository, joystick_user_data_repository,
                       error_callback, joystick_callback, ERROR_REPORTING,
                       library_vars, marshal_vars>>

\* lines 1500-1504: the wrapped host value get_window_user_pointer finds
\* for window_addr in the side table, None when there is none
wrapped_user_pointer(window_addr) ==
    IF /\ window_addr \in DOMAIN window_user_data_repository
       /\ window_user_data_repository[window_addr].wrapped
    THEN window_user_data_repository[window_addr].pointer
    ELSE None

\* lines 1500-1504: whether the side table answers
has_wrapped_user_pointer(window_addr) ==
    /\ window_addr \in DOMAIN window_user_data_repository
    /\ window_user_data_repository[window_addr].wrapped

\* get_window_user_pointer(window), lines 1489-1505: answered from the side
\* table without a native call, or by the native call
get_window_user_pointer(window) ==
    LET window_addr == c_long(window)
    IN  /\ glfw.initialized
        /\ window \in glfw.windows
        /\ IF has_wrapped_user_pointer(window_addr)
           THEN /\ CanCall
                /\ hostResult' =
                       IF stack = << >>
                       THEN Result("return", "get_window_user_pointer", window, "",
                                   wrapped_user_pointer(window_addr), NoExc,
                                   attached_user_pointer(window))
                       ELSE hostResult
                /\ event' = Ev("returned", NoExc, 0, "")
                /\ UNCHANGED <<stack>>
           ELSE Enter(NativeFrame("get_window_user_pointer", window, "", None, None,
                                  c_void_p_result(glfw.userptr[window]),
                                  attached_user_pointer(window)))
        /\ UNCHANGED <<exc_info_from_callback, callback_repositories,
                       window_user_data_repository, monitor_user_data_repository,
                       joystick_user_data_repository, error_callback,
                       joystick_callback, ERROR_REPORTING, glfw, library_vars,
                       marshal_vars>>

(***************************************************************************)
(* Monitor and joystick user pointers (lines 993-1039, 2131-2177).         *)
(***************************************************************************)
\* raised by ctypes when an argument does not convert to the argtype
ArgumentError ==
    Exc("ArgumentError", 0)

\* whether a value can be a dict key: instances of ctypes types are unhashable
hashable(key) ==
    key.t = "int"

\* the argtypes check ctypes makes on the first argument of
\* _glfw.glfwSetWindowUserPointer (lines 1463-1464): a window pointer
converts_to_window(arg) ==
    arg.t = "GLFWwindow"

\* a wrapper raises exc in its own code, outside every native call
wrapper_raises(op, exc) ==
    /\ CanCall
    /\ IF stack = << >>
       THEN /\ hostResult' = Result("raise", op, 0, "", None, exc, None)
            /\ UNCHANGED stack
       ELSE /\ stack' = [stack EXCEPT ![Len(stack)].exc = exc]
            /\ UNCHANGED hostResult
    /\ event' = Ev("wrapper_raised", exc, 0, "")

\* set_monitor_user_pointer(monitor, pointer), lines 1000-1019: the table
\* write of line 1018 raises TypeError for an unhashable key; line 1019
\* passes the monitor to glfwSetWindowUserPointer
set_monitor_user_pointer(monitor, pointer) ==
    /\ IF ~hashable(monitor)
       THEN /\ wrapper_raises("set_monitor_user_pointer", TypeError)
            /\ UNCHANGED monitor_user_data_repository
       ELSE /\ monitor_user_data_repository' =
                  Put(monitor_user_data_repository, monitor, user_pointer_data(pointer))
            /\ ~converts_to_window(monitor)
            /\ wrapper_raises("set_monitor_user_pointer", ArgumentError)
    /\ UNCHANGED <<exc_info_from_callback, callback_repositories,
                   window_user_data_repository, joystick_user_data_repository,
                   error_callback, joystick_callback, ERROR_REPORTING, glfw,
                   library_vars, marshal_vars>>

\* set_joystick_user_pointer(joystick_id, pointer), lines 2138-2157: the
\* table is written (line 2156), then line 2157 passes the joystick id to
\* glfwSetWindowUserPointer, which ctypes refuses before any native call
set_joystick_user_pointer(joystick_id, pointer) ==
    /\ joystick_user_data_repository' =
           Put(joystick_user_data_repository, joystick_id, user_pointer_data(pointer))
    /\ ~converts_to_window(joystick_id)
    /\ wrapper_raises("set_joystick_user_pointer", ArgumentError)
    /\ UNCHANGED <<exc_info_from_callback, callback_repositories,
                   window_user_data_repository, monitor_user_data_repository,
                   error_callback, joystick_callback, ERROR_REPORTING, glfw,
                   library_vars, marshal_vars>>

\* what the caller passed to set_joystick_user_pointer for the joystick last,
\* as a following get has to return it: the host value, or the address of
\* the raw pointer (line 2156 records it at every call)
joystick_pointer_passed(joystick_id) ==
    IF joystick_id \notin DOMAIN joystick_user_data_repository THEN None
    ELSE IF joystick_user_data_repository[joystick_id].wrapped
    THEN joystick_user_data_repository[joystick_id].pointer
    ELSE c_void_p_result(joystick_user_data_repository[joystick_id].pointer.n)

\* get_monitor_user_pointer(monitor), lines 1026-1039: the test of line 1035
\* hashes the monitor and raises TypeError for an unhashable one
get_monitor_user_pointer(monitor) ==
    /\ IF ~hashable(monitor)
       THEN wrapper_raises("get_monitor_user_pointer", TypeError)
       ELSE IF /\ monitor \in DOMAIN monitor_user_data_repository
               /\ monitor_user_data_repository[monitor].wrapped
       THEN /\ CanCall
            /\ hostResult' =
                   IF stack = << >>
                   THEN Result("return", "get_monitor_user_pointer", 0, "",
                               monitor_user_data_repository[monitor].pointer, NoExc, None)
                   ELSE hostResult
            /\ event' = Ev("returned", NoExc, 0, "")
            /\ UNCHANGED stack
       ELSE Enter(NativeFrame("get_monitor_user_pointer", 0, "", monitor, None,
                              c_void_p_result(glfw.monitor_userptr[monitor]), None))
    /\ UNCHANGED <<exc_info_from_callback, callback_repositories,
                   window_user_data_repository, monitor_user_data_repository,
                   joystick_user_data_repository, error_callback, joystick_callback,
                   ERROR_REPORTING, glfw, library_vars, marshal_vars>>

\* get_joystick_user_pointer(joystick_id), lines 2164-2177: answered from
\* the side table without a native call, or by glfwGetJoystickUserPointer
get_joystick_user_pointer(joystick_id) ==
    /\ IF /\ joystick_id \in DOMAIN joystick_user_data_repository
          /\ joystick_user_data_repository[joystick_id].wrapped
       THEN /\ CanCall
            /\ hostResult' =
                   IF stack = << >>
                   THEN Result("return", "get_joystick_user_pointer", 0, "",
                               joystick_user_data_repository[joystick_id].pointer,
                               NoExc, joystick_pointer_passed(joystick_id))
                   ELSE hostResult
            /\ event' = Ev("returned", NoExc, 0, "")
            /\ UNCHANGED stack
       ELSE Enter(NativeFrame("get_joystick_user_pointer", 0, "", joystick_id, None,
                              c_void_p_result(glfw.joystick_userptr[joystick_id]),
                              joystick_pointer_passed(joystick_id)))
    /\ UNCHANGED <<exc_info_from_callback, callback_repositories,
                   window_user_data_repository, monitor_user_data_repository,
                   joystick_user_data_repository, error_callback, joystick_callback,
                   ERROR_REPORTING, glfw, library_vars, marshal_vars>>

\* lines 744-746 moved behind the native call: the tables are as they were
\* when the call is made
terminate_cleanup_after_call(repos) ==
    repos

\* lines 744-746: terminate before its native call: every callback table
\* is emptied
terminate_cleanup(repos) ==
    [k \in Kinds |-> EmptyDict]

\* terminate(), lines 736-749: the tables are emptied, then the native call;
\* the library destroys every window and forgets every callback but the
\* error callback
terminate ==
    /\ glfw.initialized
    /\ callback_repositories' = terminate_cleanup(callback_repositories)
    /\ window_user_data_repository' = EmptyDict
    /\ glfw' = [GlfwInit EXCEPT !.errorfun = glfw.errorfun]
    /\ Enter(NativeFrame("terminate", 0, "", None, None, None, None))
    /\ UNCHANGED <<exc_info_from_callback, monitor_user_data_repository,
                   joystick_user_data_repository, error_callback, joystick_callback,
                   ERROR_REPORTING, library_vars, marshal_vars>>

\* the host program assigns glfw.ERROR_REPORTING
set_ERROR_REPORTING(value) ==
    /\ stack = << >>
    /\ ERROR_REPORTING /= value
    /\ ERROR_REPORTING' = value
    /\ event' = Ev("config", NoExc, 0, "")
    /\ UNCHANGED <<exc_info_from_callback, callback_repositories,
                   window_user_data_repository, monitor_user_data_repository,
                   joystick_user_data_repository, error_callback, joystick_callback,
                   glfw, stack, hostResult, library_vars, marshal_vars>>

(***************************************************************************)
(* errcheck (lines 627-633) and the rest of the wrapper after the call.    *)
(***************************************************************************)
\* line 629 left out: errcheck returns the result whatever the slot holds
errcheck_never_raises ==
    FALSE

\* line 629 reached only at the return of a call made outside every callback
errcheck_raises_outside_callbacks ==
    exc_info_from_callback /= NoExc /\ Len(stack) = 1

\* line 629
errcheck_raises ==
    exc_info_from_callback /= NoExc

\* line 631 left out: the failure stays in the slot
errcheck_not_drained ==
    exc_info_from_callback

\* line 631: the slot once errcheck has taken the failure out
errcheck_drained ==
    NoExc

\* what the wrapper returns once its native call has returned result
wrapper_returns(frame) ==
    CASE frame.op = "set_window_callback" -> previous_callback_returned(frame.previous)
      [] frame.op = "set_joystick_callback" -> previous_callback_returned(frame.previous)
      [] frame.op = "set_error_callback" -> error_callback_returned(frame.previous)
      [] frame.op \in {"create_window", "get_window_user_pointer",
                      "get_monitor_user_pointer", "get_joystick_user_pointer",
                      "init"} -> frame.result
      [] OTHER -> None

\* the native call on top of the stack returns: errcheck runs, and either
\* raises the pending failure in the caller or lets the wrapper finish
native_return ==
    /\ InNative
    /\ IF errcheck_raises
       THEN /\ exc_info_from_callback' = errcheck_drained
            /\ IF Len(stack) = 1
               THEN /\ stack' = << >>
                    /\ hostResult' = Result("raise", Top.op, Top.window, Top.kind, None,
                                            exc_info_from_callback, Top.expect)
               ELSE /\ stack' = [Pop EXCEPT ![Len(stack) - 1].exc = exc_info_from_callback]
                    /\ UNCHANGED hostResult
            /\ event' = Ev("raised", exc_info_from_callback, 0, "")
            /\ UNCHANGED <<callback_repositories, window_user_data_repository>>
       ELSE /\ stack' = Pop
            /\ hostResult' =
                   IF Len(stack) = 1
                   THEN Result("return", Top.op, Top.window, Top.kind,
                               wrapper_returns(Top), NoExc, Top.expect)
                   ELSE hostResult
            /\ event' = Ev("returned", NoExc, 0, "")
            /\ IF Top.op = "destroy_window"
               THEN /\ callback_repositories' =
                           destroy_window_cleanup(callback_repositories, Top.window)
                    /\ window_user_data_repository' =
                           Del(window_user_data_repository, c_ulong(Top.window))
               ELSE UNCHANGED <<callback_repositories, window_user_data_repository>>
            /\ UNCHANGED exc_info_from_callback
    /\ UNCHANGED <<monitor_user_data_repository, joystick_user_data_repository,
                   error_callback, joystick_callback, ERROR_REPORTING, glfw,
                   library_vars, marshal_vars>>

(***************************************************************************)
(* The callback bridge: a host program that creates windows, installs and  *)
(* uninstalls key and drop callbacks and polls for events; callback bodies *)
(* that return, raise, or poll for events themselves.                      *)
(***************************************************************************)
InHost ==
    stack = << >>

Next ==
    \/ InHost /\ init
    \/ InHost /\ \E addr \in WindowAddrs : create_window(addr)
    \/ InHost /\ \E window \in WindowAddrs, cbfun \in {Fn(1), None} :
           \/ set_key_callback(window, cbfun)
           \/ set_drop_callback(window, cbfun)
    \/ InHost /\ \E value \in {Mode("raise"), Mode("warn")} : set_ERROR_REPORTING(value)
    \/ poll_events
    \/ \E window \in WindowAddrs, kind \in Kinds :
           glfw_window_event(window, kind)
    \/ glfw_error(PLATFORM_ERROR)
    \/ callback_body_returns
    \/ \E exc \in UserErrors \cup {KeyboardInterrupt} : callback_body_raises(exc)
    \/ callback_body_handles
    \/ callback_body_propagates
    \/ native_return

Spec ==
    Init /\ [][Next]_vars

(***************************************************************************)
(* Callback registration on windows: a host program that creates and      *)
(* destroys windows and installs position and drop callbacks, while the    *)
(* library reports errors to the default error handler.                    *)
(***************************************************************************)
CallbackArgs ==
    UserFunctions \cup {None}

NextReg ==
    \/ InHost /\ init
    \/ InHost /\ \E addr \in WindowAddrs : create_window(addr)
    \/ InHost /\ \E window \in WindowAddrs : destroy_window(window)
    \/ InHost /\ \E window \in WindowAddrs, cbfun \in CallbackArgs :
           set_window_pos_callback(window, cbfun)
    \/ InHost /\ \E window \in WindowAddrs, cbfun \in {Fn(1), None} :
           set_drop_callback(window, cbfun)
    \/ InHost /\ set_ERROR_REPORTING(Mode("raise"))
    \/ glfw_error(PLATFORM_ERROR)
    \/ native_return

SpecReg ==
    Init /\ [][NextReg]_vars

(***************************************************************************)
(* The process-wide callbacks: a host program that installs error and      *)
(* joystick callbacks and polls for events.                                *)
(***************************************************************************)
NextGlobal ==
    \/ InHost /\ init
    \/ InHost /\ \E cbfun \in CallbackArgs : set_error_callback(cbfun)
    \/ InHost /\ \E cbfun \in CallbackArgs : set_joystick_callback(cbfun)
    \/ InHost /\ poll_events
    \/ glfw_joystick_event
    \/ glfw_error(PLATFORM_ERROR)
    \/ callback_body_returns
    \/ \E exc \in UserErrors : callback_body_raises(exc)
    \/ native_return

SpecGlobal ==
    Init /\ [][NextGlobal]_vars

(***************************************************************************)
(* User pointers: a host program that creates and destroys windows and     *)
(* attaches and reads user pointers.                                       *)
(***************************************************************************)
NextPtr ==
    \/ InHost /\ init
    \/ InHost /\ \E addr \in WindowAddrs : create_window(addr)
    \/ InHost /\ \E window \in WindowAddrs : destroy_window(window)
    \/ InHost /\ \E window \in WindowAddrs, pointer \in HostObjects \cup RawPointers :
           set_window_user_pointer(window, pointer)
    \/ InHost /\ \E window \in WindowAddrs : get_window_user_pointer(window)
    \/ InHost /\ terminate
    \/ InHost /\ \E value \in {Mode("raise"), Mode("warn")} : set_ERROR_REPORTING(value)
    \/ glfw_error(PLATFORM_ERROR)
    \/ native_return

SpecPtr ==
    Init /\ [][NextPtr]_vars

(***************************************************************************)
(* Teardown: a host program that creates and destroys windows, installs    *)
(* callbacks, attaches user pointers to windows, monitors and joysticks,   *)
(* and terminates the library.                                             *)
(***************************************************************************)
NextTeardown ==
    \/ InHost /\ init
    \/ InHost /\ \E addr \in WindowAddrs : create_window(addr)
    \/ InHost /\ \E window \in WindowAddrs : destroy_window(window)
    \/ InHost /\ \E window \in WindowAddrs : set_window_pos_callback(window, Fn(1))
    \/ InHost /\ \E window \in WindowAddrs, pointer \in {Obj(1), c_void_p(1)} :
           set_window_user_pointer(window, pointer)
    \/ InHost /\ \E window \in WindowAddrs : get_window_user_pointer(window)
    \/ InHost /\ \E monitor \in Monitors : set_monitor_user_pointer(monitor, Obj(1))
    \/ InHost /\ \E joystick_id \in JoystickIds :
           set_joystick_user_pointer(joystick_id, Obj(1))
    \/ InHost /\ terminate
    \/ native_return

SpecTeardown ==
    Init /\ [][NextTeardown]_vars

(***************************************************************************)
(* Error reporting: a host program that assigns glfw.ERROR_REPORTING       *)
(* between calls, while the library reports errors to the default error    *)
(* handler.                                                                *)
(***************************************************************************)
\* the values line 831-838 accept
ModeNames ==
    {"raise", "exception", "True", "warn", "warning", "log", "ignore", "False"}

\* the modes used as values of a dict
DictModes ==
    {"exception", "warn", "False"}

\* the keys of a dict: one error code and None
DictKeys ==
    {PLATFORM_ERROR, NoneKey}

\* what the host program assigns to glfw.ERROR_REPORTING
ReportingValues ==
    {Mode(m) : m \in ModeNames}
    \cup {ModeDict(entries) :
              entries \in UNION {[keys -> DictModes] : keys \in SUBSET DictKeys}}

NextReport ==
    \/ InHost /\ init
    \/ InHost /\ poll_events
    \/ InHost /\ \E value \in ReportingValues : set_ERROR_REPORTING(value)
    \/ \E error_code \in ErrorCodes : glfw_error(error_code)
    \/ native_return

SpecReport ==
    Init /\ [][NextReport]_vars

(***************************************************************************)
(* Teardown while the library reports errors to the default error handler  *)
(* in raise mode.                                                          *)
(***************************************************************************)
NextFailingTeardown ==
    \/ NextTeardown
    \/ InHost /\ set_ERROR_REPORTING(Mode("raise"))
    \/ glfw_error(PLATFORM_ERROR)

SpecFailingTeardown ==
    Init /\ [][NextFailingTeardown]_vars

(***************************************************************************)
(* Errors reported while callbacks fail: a host program with a key         *)
(* callback that may raise, under every value of glfw.ERROR_REPORTING,     *)
(* while the library reports errors to the default error handler.          *)
(***************************************************************************)
NextDropped ==
    \/ InHost /\ init
    \/ InHost /\ create_window(2)
    \/ InHost /\ set_key_callback(2, Fn(1))
    \/ InHost /\ \E value \in ReportingValues : set_ERROR_REPORTING(value)
    \/ InHost /\ poll_events
    \/ glfw_window_event(2, "key")
    \/ \E error_code \in ErrorCodes : glfw_error(error_code)
    \/ callback_body_returns
    \/ \E exc \in UserErrors : callback_body_raises(exc)
    \/ native_return

SpecDropped ==
    Init /\ [][NextDropped]_vars

(***************************************************************************)
(* The search for candidates applied to every directory entry whose        *)
(* resolved base name is an optional prefix, a library name and up to      *)
(* MaxPieces pieces, the entry being that file itself or a symbolic link   *)
(* to it.                                                                  *)
(***************************************************************************)
MaxPieces ==
    3

\* what a base name is put together from behind the library name
Pieces ==
    {<<".">>, <<"3">>, <<"x">>, <<".", "s", "o">>, <<".", "d", "y", "l", "i", "b">>}

Remainders ==
    LET upto[n \in 0..MaxPieces] ==
            IF n = 0 THEN {<< >>}
            ELSE upto[n - 1] \cup {r \o piece : r \in upto[n - 1], piece \in Pieces}
    IN  upto[MaxPieces]

\* the resolved base names
BaseNames ==
    {prefix \o library_names[i] \o remainder :
        prefix \in {<< >>, lib, <<"x">>},
        i \in 1..Len(library_names),
        remainder \in Remainders}

\* the names of symbolic links: libglfw.so, glfw3.so and foo.so
LinkNames ==
    {lib \o library_names[1] \o library_file_extensions[1],
     library_names[2] \o library_file_extensions[1],
     <<"f", "o", "o">> \o library_file_extensions[1]}

\* a directory entry: its own name and the base name of its resolved path
DirEntries ==
    {[name |-> basename, realpath |-> basename] : basename \in BaseNames}
    \cup [name : LinkNames, realpath : BaseNames]

InitMatch ==
    /\ ModuleImported
    /\ NoMarshal
    /\ LocatorStart
    /\ environ = [PYGLFW_LIBRARY |-> NoPath, platform |-> "linux", frozen |-> FALSE]
    /\ filesystem = [files |-> [file \in Files |-> Absent], dlls |-> {},
                     search_paths |-> << >>]
    /\ dir_entry \in DirEntries
    /\ glob_pc = 1

NextMatch ==
    glob_library_name

SpecMatch ==
    InitMatch /\ [][NextMatch]_vars

(***************************************************************************)
(* The probing locator over two search directories, for every way the      *)
(* library files are spread over them (a file can be reached from both)    *)
(* and every version they report.                                          *)
(***************************************************************************)
\* the search directories, the earlier one first: the files reached from each
SearchPaths ==
    [{1, 2} -> SUBSET Files]

InitSearch ==
    /\ ModuleImported
    /\ NoMarshal
    /\ LocatorStart
    /\ NoSearch
    /\ environ = [PYGLFW_LIBRARY |-> NoPath, platform |-> "linux", frozen |-> FALSE]
    /\ filesystem \in [files : [Files -> {Library(<<3, 0, 0>>), Library(<<3, 1, 0>>)}],
                        dlls : {{}},
                        search_paths : SearchPaths]

NextSearch ==
    \/ load_library
    \/ \E filename \in Files : version_check(filename)
    \/ load_most_recent

SpecSearch ==
    InitSearch /\ [][NextSearch]_vars

(***************************************************************************)
(* User pointers of monitors and joysticks: a host program that attaches   *)
(* host values and raw pointers to them and reads them back.               *)
(***************************************************************************)
NextHandles ==
    \/ InHost /\ init
    \/ InHost /\ \E monitor \in Monitors, pointer \in {Obj(1), c_void_p(1)} :
           set_monitor_user_pointer(monitor, pointer)
    \/ InHost /\ \E monitor \in Monitors : get_monitor_user_pointer(monitor)
    \/ InHost /\ \E joystick_id \in JoystickIds, pointer \in HostObjects \cup RawPointers :
           set_joystick_user_pointer(joystick_id, pointer)
    \/ InHost /\ \E joystick_id \in JoystickIds : get_joystick_user_pointer(joystick_id)
    \/ native_return

SpecHandles ==
    Init /\ [][NextHandles]_vars

(***************************************************************************)
(* The import of glfw/library.py, for every environment and every content  *)
(* of the search paths.                                                    *)
(***************************************************************************)
\* PYGLFW_LIBRARY empty or naming a file, the platform, sys.frozen
Environments ==
    [PYGLFW_LIBRARY : {NoPath, FilePath(1)},
     platform : {"linux", "win32"},
     frozen : BOOLEAN]

\* the files of the search paths, all in one directory, and the Windows DLLs
\* that load
FileSystems ==
    [files : [Files -> FileContents], dlls : SUBSET Set(WindowsPaths),
     search_paths : {<<Files>>}]

InitLocator ==
    /\ ModuleImported
    /\ NoMarshal
    /\ LocatorStart
    /\ NoSearch
    /\ environ \in Environments
    /\ filesystem \in FileSystems
    /\ environ.platform /= "win32" => filesystem.dlls = {}
    /\ environ.platform = "win32" =>
           \A file \in Files \ {1} : filesystem.files[file] = Absent

NextLocator ==
    \/ load_override
    \/ load_windows
    \/ load_library
    \/ \E filename \in Files : version_check(filename)
    \/ load_most_recent
    \/ load_first_library

SpecLocator ==
    InitLocator /\ [][NextLocator]_vars

(***************************************************************************)
(* The gamma ramp marshaler applied to every ramp of up to MaxRampLen       *)
(* samples per channel, and the image marshaler applied to every image of  *)
(* up to MaxDim by MaxDim pixels.                                          *)
(***************************************************************************)
MaxRampLen ==
    2

MaxDim ==
    2

\* integer samples (NORMALIZE_GAMMA_RAMPS = False) and samples between 0 and 1
IntegerSamples ==
    {Sample(0, 1), Sample(32768, 1), Sample(65535, 1)}

NormalizedSamples ==
    {Sample(1, 2), Sample(6, 7), Sample(1, 1)}

Channels(samples) ==
    UNION {[1..n -> samples] : n \in 0..MaxRampLen}

\* RGBA pixels
Palette ==
    {<<0, 0, 0, 0>>, <<255, 128, 64, 32>>, <<1, 2, 3, 255>>}

Images ==
    UNION {{[width |-> w, height |-> h, pixels |-> pixels] :
                pixels \in [1..h -> [1..w -> Palette]]} :
           w \in 0..MaxDim, h \in 0..MaxDim}

InitRamp ==
    /\ ModuleImported
    /\ LibraryFound
    /\ NORMALIZE_GAMMA_RAMPS \in BOOLEAN
    /\ LET samples == IF NORMALIZE_GAMMA_RAMPS THEN NormalizedSamples
                      ELSE IntegerSamples
       IN  gammaramp \in [red : Channels(samples), green : Channels(samples),
                          blue : Channels(samples)]
    /\ c_gammaramp = GammaRampInit
    /\ gammaramp_unwrapped = NoRamp
    /\ image = NoImage
    /\ c_image = ImageInit
    /\ image_unwrapped = NoImage
    /\ marshal_pc = "gammaramp"

NextRamp ==
    \/ gammaramp_wrap
    \/ gammaramp_unwrap

SpecRamp ==
    InitRamp /\ [][NextRamp]_vars

InitImage ==
    /\ ModuleImported
    /\ LibraryFound
    /\ NORMALIZE_GAMMA_RAMPS = TRUE
    /\ gammaramp = NoRamp
    /\ c_gammaramp = GammaRampInit
    /\ gammaramp_unwrapped = NoRamp
    /\ image \in Images
    /\ c_image = ImageInit
    /\ image_unwrapped = NoImage
    /\ marshal_pc = "image"

NextImage ==
    \/ image_wrap
    \/ image_unwrap

SpecImage ==
    InitImage /\ [][NextImage]_vars

\* native calls return: the library does not hold the thread for ever
FairSpec ==
    Spec /\ WF_vars(native_return)

(***************************************************************************)
(* The pending-failure protocol.                                           *)
(***************************************************************************)
Pending ==
    exc_info_from_callback /= NoExc

\* the native call on top of the stack returns in this step
NativeReturns ==
    InNative /\ Len(stack') = Len(stack) - 1

\* C1: while the pending-failure slot is non-empty, every trampoline the
\* native library invokes (window callbacks of any kind and handle, the
\* default error handler) returns at once: no callback body starts, nothing
\* is reported, and slot and stack stay as they are, until the native call in
\* progress returns and drains the slot.
C1_SuppressedWhilePending ==
    [][Pending =>
          \/ NativeReturns
          \/ /\ event'.what = "suppressed"
             /\ stack' = stack
             /\ exc_info_from_callback' = exc_info_from_callback
             /\ hostResult' = hostResult]_vars

C1_Witness ==
    /\ Pending
    /\ event.what = "suppressed"

\* C2: when the slot is empty and a user callback body raises an ordinary
\* error, the error is stored in the slot and the trampoline returns normally
\* into the native call that invoked it: the body's frame is gone, the
\* native call is still in progress and host code has seen no exception.
C2_BodyFailureCaptured ==
    [][(InBody /\ ~Pending /\ event'.what = "body_raised"
             /\ event'.exc /= KeyboardInterrupt) =>
          /\ exc_info_from_callback' = event'.exc
          /\ stack' = Pop
          /\ InNative'
          /\ hostResult' = hostResult]_vars

C2_Witness ==
    /\ event.what = "body_raised"
    /\ event.exc \in UserErrors
    /\ exc_info_from_callback = event.exc
    /\ InNative

\* C3: if the slot is non-empty when a wrapped native call returns, that
\* return empties the slot and raises the captured error in the caller (the
\* host program, or the callback body that made the call); the caller gets no
\* return value.
C3_DrainedAndRaisedAtReturn ==
    [][(Pending /\ NativeReturns) =>
          /\ exc_info_from_callback' = NoExc
          /\ IF Len(stack) = 1
             THEN /\ hostResult'.kind = "raise"
                  /\ hostResult'.exc = exc_info_from_callback
                  /\ hostResult'.val = None
             ELSE /\ stack'[Len(stack')].exc = exc_info_from_callback
                  /\ hostResult' = hostResult]_vars

C3_Witness ==
    /\ hostResult.kind = "raise"
    /\ hostResult.exc \in UserErrors
    /\ ~Pending
    /\ InHost

\* C4: a non-empty slot is never overwritten: whatever callbacks the native
\* library invokes before the slot is drained, the slot keeps the first
\* failure, and the error raised at the next native-call return is that one.
C4_FirstFailureKept ==
    [][Pending =>
          \/ exc_info_from_callback' = exc_info_from_callback
          \/ /\ exc_info_from_callback' = NoExc
             /\ event' = Ev("raised", exc_info_from_callback, 0, "")]_vars

\* a window callback was invoked while the failure of another one was pending
C4_Witness ==
    /\ exc_info_from_callback \in UserErrors
    /\ event.what = "suppressed"
    /\ event.kind \in Kinds

\* C5: every captured failure is raised by exactly one native-call return:
\* a native-call return raises only what the slot holds and empties the slot
\* (so nothing is raised twice), the slot loses a failure only by that
\* (nothing is discarded), and a pending failure is raised eventually.
C5_ExactlyOnce ==
    /\ [][/\ event'.what = "raised" =>
                /\ Pending
                /\ event'.exc = exc_info_from_callback
                /\ exc_info_from_callback' = NoExc
          /\ (Pending /\ exc_info_from_callback' /= exc_info_from_callback) =>
                event'.what = "raised"]_vars
    /\ (Pending ~> ~Pending)

C5_Witness ==
    /\ event.what = "raised"
    /\ event.exc = GLFWError(PLATFORM_ERROR)
    /\ ~Pending

\* the last installation for the kind on the window passed None
Uninstalled(window, kind) ==
    /\ c_long(window) \in DOMAIN callback_repositories[kind]
    /\ callback_repositories[kind][c_long(window)].cbfun = Zero

\* C7: passing None uninstalls the kind for the handle: when the native
\* library then delivers an event of that kind for that handle, no host code
\* runs and the pending-failure slot stays as it is, and the next
\* installation for that kind and handle returns None.
C7_UninstalledStaysSilent ==
    [][\A window \in WindowAddrs, kind \in Kinds :
          /\ (/\ Uninstalled(window, kind)
              /\ InNative
              /\ event'.window = window
              /\ event'.kind = kind) =>
                /\ stack' = stack
                /\ exc_info_from_callback' = exc_info_from_callback
          /\ (/\ Uninstalled(window, kind)
              /\ InHost
              /\ stack' /= << >>
              /\ stack'[1].op = "set_window_callback"
              /\ stack'[1].window = window
              /\ stack'[1].kind = kind) =>
                previous_callback_returned(stack'[1].previous) = None]_vars

(***************************************************************************)
(* Callback registration.                                                  *)
(***************************************************************************)
\* C6: a set_<kind>_callback call on a window returns the host function most
\* recently installed for that kind on that window (None for the first
\* installation on a window, and after None was installed), whatever was
\* installed on other windows and kinds.
C6_ReturnsPreviouslyInstalled ==
    (hostResult.op = "set_window_callback" /\ hostResult.kind = "return") =>
        hostResult.val = hostResult.expect

\* C8: set_joystick_callback returns the host function previously installed
\* as joystick callback, None if there was none.
C8_JoystickReturnsPrevious ==
    (hostResult.op = "set_joystick_callback" /\ hostResult.kind = "return") =>
        hostResult.val = hostResult.expect

(***************************************************************************)
(* User pointers.                                                          *)
(***************************************************************************)
\* C9: once a host value v has been attached to a live window,
\* get_window_user_pointer on that window returns v itself, at once and
\* without a native call, until another pointer is attached to that window
\* or the window is destroyed; what is attached to other windows does not
\* matter.
C9_HostValueReturned ==
    (hostResult.op = "get_window_user_pointer" /\ hostResult.expect \in HostObjects) =>
        /\ hostResult.kind = "return"
        /\ hostResult.val = hostResult.expect

C9_Witness ==
    /\ hostResult.op = "get_window_user_pointer"
    /\ hostResult.kind = "return"
    /\ hostResult.val \in HostObjects
    /\ Cardinality(DOMAIN window_user_data_repository) = 2

\* C10: set_window_user_pointer with a raw pointer p hands p itself to the
\* native library and leaves no wrapped host value in the side table for the
\* window, so that get_window_user_pointer returns the address the native
\* slot holds, also when a host value was attached before.
C10_RawPointerPassedThrough ==
    /\ (/\ InNative
        /\ Top.op = "set_window_user_pointer"
        /\ is_c_void_p(Top.arg)
        /\ event.what = "call") =>
            /\ glfw.userptr[Top.window] = Top.arg.n
            /\ ~has_wrapped_user_pointer(c_long(Top.window))
    /\ (/\ hostResult.op = "get_window_user_pointer"
        /\ hostResult.kind = "return"
        /\ hostResult.expect.t = "int") =>
            hostResult.val = hostResult.expect

C10_Witness ==
    /\ hostResult.op = "get_window_user_pointer"
    /\ hostResult.kind = "return"
    /\ hostResult.val \in {Val("int", i) : i \in 1..NumPointers}

(***************************************************************************)
(* Teardown.                                                               *)
(***************************************************************************)
\* the key the setters and getters use for the window is in no side table
NoEntryFor(window) ==
    /\ c_long(window) \notin DOMAIN window_user_data_repository
    /\ \A kind \in Kinds : c_long(window) \notin DOMAIN callback_repositories[kind]

\* C11: once destroy_window(h) has returned, no side table holds an entry
\* under h's key; so get_window_user_pointer on a window to which nothing
\* was attached (a new window at the same address) returns None and not a
\* host value attached earlier, and the first installation of a callback on
\* it returns None.
C11_DestroyRemovesEntries ==
    /\ (hostResult.op = "destroy_window" /\ hostResult.kind = "return") =>
            NoEntryFor(hostResult.window)
    /\ (/\ hostResult.op \in {"get_window_user_pointer", "set_window_callback"}
        /\ hostResult.kind = "return"
        /\ hostResult.expect = None) =>
            hostResult.val = None

\* C12: once terminate() has returned, every side table is empty: the
\* window user-pointer table, every per-window callback table, the monitor
\* user-pointer table and the joystick user-pointer table.
C12_TerminateEmptiesTables ==
    (hostResult.op = "terminate" /\ hostResult.kind = "return") =>
        /\ window_user_data_repository = EmptyDict
        /\ \A kind \in Kinds : callback_repositories[kind] = EmptyDict
        /\ monitor_user_data_repository = EmptyDict
        /\ joystick_user_data_repository = EmptyDict

(***************************************************************************)
(* The library locator.                                                    *)
(***************************************************************************)
\* the import takes the path of _load_library (lines 257-259)
Probing ==
    /\ ~override_applies
    /\ environ.platform /= "win32"
    /\ ~environ.frozen

\* the files whose library reports a version >= (3, 0, 0)
Supported ==
    {file \in Files :
        /\ filesystem.files[file].kind = "library"
        /\ VersionAtLeast(filesystem.files[file].version, MinimumVersion)}

\* C13: the probing locator loads a candidate whose reported version is the
\* maximum among the candidates reporting a version >= (3, 0, 0), whenever
\* there is one, and loads nothing else: a candidate reporting a lower
\* version is never loaded, whatever its file name.
C13_HighestSupportedLoaded ==
    Probing =>
        /\ \A path \in loaded :
              /\ path.where = "file"
              /\ path.n \in Supported
              /\ \A file \in Supported :
                    VersionAtLeast(filesystem.files[path.n].version,
                                   filesystem.files[file].version)
        /\ (locator_pc = "done" /\ Supported /= {}) =>
              /\ library.state = "CDLL"
              /\ loaded = {library.path}

\* a 3.x library was loaded although a 2.9 library has a greater file name
\* and a third candidate reports a supported version as well
C13_Witness ==
    /\ Probing
    /\ locator_pc = "done"
    /\ library.state = "CDLL"
    /\ Cardinality(Supported) >= 2
    /\ \E file \in Files :
          /\ file > library.path.n
          /\ filesystem.files[file] = Library(<<2, 9, 0>>)

\* C14: a candidate whose probe yields no version (it does not load, or has
\* no glfwGetVersion) or a version below (3, 0, 0) is discarded; when no
\* candidate is left, or there was none, the locator returns None and has
\* loaded nothing into the process.
C14_UnsupportedDiscarded ==
    Probing =>
        /\ \A i \in 1..Len(library_versions) :
              library_versions[i].filename \in Supported
        /\ (locator_pc = "done" /\ Supported = {}) =>
              /\ library = NoLibrary
              /\ loaded = {}

\* every kind of unusable candidate was probed and None returned
C14_Witness ==
    /\ Probing
    /\ locator_pc = "done"
    /\ library = NoLibrary
    /\ loaded = {}
    /\ {filesystem.files[file].kind : file \in probed} =
           {"not_loadable", "no_glfwGetVersion", "library"}

\* C15: when PYGLFW_LIBRARY names a path, on every platform, frozen or not,
\* nothing is searched and nothing is probed, no other path is loaded, and
\* the result is that path's library if it loads and None if it does not.
C15_OverrideOnly ==
    environ.PYGLFW_LIBRARY /= NoPath =>
        /\ candidates = << >>
        /\ probed = {}
        /\ library_versions = << >>
        /\ loaded \subseteq {environ.PYGLFW_LIBRARY}
        /\ locator_pc = "done" =>
              library = IF CDLL_loads(environ.PYGLFW_LIBRARY)
                        THEN CDLL(environ.PYGLFW_LIBRARY)
                        ELSE NoLibrary

\* the override did not load and the result is None, on Windows with a DLL
\* the fallback chain would have loaded
C15_Witness ==
    /\ environ.PYGLFW_LIBRARY /= NoPath
    /\ locator_pc = "done"
    /\ library = NoLibrary
    /\ loaded = {}
    /\ environ.platform = "win32"
    /\ filesystem.dlls /= {}

(***************************************************************************)
(* The structure marshalers.                                               *)
(***************************************************************************)
\* the smallest of the three channel lengths of the host ramp
MinLength ==
    Min(Len(gammaramp.red), Min(Len(gammaramp.green), Len(gammaramp.blue)))

\* C16: wrap of three channels of lengths a, b, c gives a structure whose
\* size is min(a, b, c) and whose three arrays hold exactly min(a, b, c)
\* elements, the first min(a, b, c) samples of their channel; unequal
\* lengths are no error.
C16_WrapTruncatesToShortest ==
    marshal_pc \in {"gammaramp_wrapped", "gammaramp_unwrapped"} =>
        /\ c_gammaramp.size = MinLength
        /\ DOMAIN c_gammaramp.red_array = 1..MinLength
        /\ DOMAIN c_gammaramp.green_array = 1..MinLength
        /\ DOMAIN c_gammaramp.blue_array = 1..MinLength
        /\ \A i \in 1..MinLength :
              /\ c_gammaramp.red_array[i] =
                     wrap_sample(gammaramp.red[i], NORMALIZE_GAMMA_RAMPS)
              /\ c_gammaramp.green_array[i] =
                     wrap_sample(gammaramp.green[i], NORMALIZE_GAMMA_RAMPS)
              /\ c_gammaramp.blue_array[i] =
                     wrap_sample(gammaramp.blue[i], NORMALIZE_GAMMA_RAMPS)

\* the red channel is the longest, the blue one the shortest and not empty
C16_Witness ==
    /\ marshal_pc = "gammaramp_wrapped"
    /\ Len(gammaramp.red) > Len(gammaramp.blue)
    /\ Len(gammaramp.green) > Len(gammaramp.blue)
    /\ c_gammaramp.size = Len(gammaramp.blue)
    /\ c_gammaramp.size >= 1

EqualLengths ==
    /\ Len(gammaramp.red) = Len(gammaramp.green)
    /\ Len(gammaramp.green) = Len(gammaramp.blue)

\* C17: with NORMALIZE_GAMMA_RAMPS false, for a ramp of three channels of
\* equal length of integers between 0 and 65535, unwrap(wrap(ramp)) is the
\* ramp, sample for sample.
C17_IntegerRoundTrip ==
    (marshal_pc = "gammaramp_unwrapped" /\ ~NORMALIZE_GAMMA_RAMPS /\ EqualLengths) =>
        gammaramp_unwrapped = gammaramp

C17_Witness ==
    /\ marshal_pc = "gammaramp_unwrapped"
    /\ ~NORMALIZE_GAMMA_RAMPS
    /\ EqualLengths
    /\ Len(gammaramp.red) = MaxRampLen
    /\ gammaramp_unwrapped.red[1] = Sample(65535, 1)
    /\ gammaramp_unwrapped.blue[MaxRampLen] = Sample(32768, 1)

\* |a - b| <= 1 / 65535
WithinOneStep(a, b) ==
    SampleDifference(a, b) <= (a.den * b.den) \div USHORT_MAX

\* C18: with NORMALIZE_GAMMA_RAMPS true, for a ramp of three channels of
\* equal length of samples between 0 and 1, every sample of
\* unwrap(wrap(ramp)) is within 1/65535 of the sample of the ramp.
C18_NormalizedRoundTrip ==
    (marshal_pc = "gammaramp_unwrapped" /\ NORMALIZE_GAMMA_RAMPS /\ EqualLengths) =>
        /\ Len(gammaramp_unwrapped.red) = Len(gammaramp.red)
        /\ Len(gammaramp_unwrapped.green) = Len(gammaramp.green)
        /\ Len(gammaramp_unwrapped.blue) = Len(gammaramp.blue)
        /\ \A i \in 1..Len(gammaramp.red) :
              /\ WithinOneStep(gammaramp.red[i], gammaramp_unwrapped.red[i])
              /\ WithinOneStep(gammaramp.green[i], gammaramp_unwrapped.green[i])
              /\ WithinOneStep(gammaramp.blue[i], gammaramp_unwrapped.blue[i])

\* a sample that is not a multiple of 1/65535 came back changed
C18_Witness ==
    /\ marshal_pc = "gammaramp_unwrapped"
    /\ NORMALIZE_GAMMA_RAMPS
    /\ EqualLengths
    /\ Len(gammaramp.red) = MaxRampLen
    /\ gammaramp.red[1] = Sample(6, 7)
    /\ SampleDifference(gammaramp.red[1], gammaramp_unwrapped.red[1]) > 0

\* C19: for an image (width, height, pixels) of height rows of width pixels
\* of 4 bytes, unwrap(wrap(image)) has the same width, the same height and
\* the same nested pixels, row by row, also when width and height differ.
C19_ImageRoundTrip ==
    marshal_pc = "image_unwrapped" => image_unwrapped = image

C19_Witness ==
    /\ marshal_pc = "image_unwrapped"
    /\ image.width = MaxDim
    /\ image.height = MaxDim - 1
    /\ image_unwrapped.pixels[1][1] /= image_unwrapped.pixels[1][2]

(***************************************************************************)
(* C20.                                                                    *)
(***************************************************************************)
\* the configuration names a mode for error code c
Configured(c) ==
    \/ ~ERROR_REPORTING.isdict
    \/ c \in DOMAIN ERROR_REPORTING.entries
    \/ NoneKey \in DOMAIN ERROR_REPORTING.entries

\* the mode the configuration names for error code c
ConfiguredMode(c) ==
    IF ~ERROR_REPORTING.isdict THEN ERROR_REPORTING.mode
    ELSE IF c \in DOMAIN ERROR_REPORTING.entries THEN ERROR_REPORTING.entries[c]
    ELSE ERROR_REPORTING.entries[NoneKey]

\* C20: when the library reports an error with code c and the default error
\* handler runs (no failure is pending), the mode applied is the value
\* glfw.ERROR_REPORTING holds at that moment if it is not a dict, else its
\* entry for c, else its entry for None; raise, exception and True make the
\* handler raise a GLFWError carrying c, warn and warning make it issue a
\* warning, log makes it log, ignore and False make it do nothing.
C20_ModeResolvedAtReport ==
    [][\A c \in ErrorCodes :
          (glfw_error(c) /\ ~Pending /\ Configured(c)) =>
              LET mode == ConfiguredMode(c)
              IN  /\ mode \in {"raise", "exception", "True"} =>
                        /\ event'.what = "error_raised"
                        /\ event'.exc = GLFWError(c)
                        /\ exc_info_from_callback' = GLFWError(c)
                  /\ mode \in {"warn", "warning"} =>
                        /\ event'.what = "error_warned"
                        /\ UNCHANGED exc_info_from_callback
                  /\ mode = "log" =>
                        /\ event'.what = "error_logged"
                        /\ UNCHANGED exc_info_from_callback
                  /\ mode \in {"ignore", "False"} =>
                        /\ event'.what = "error_ignored"
                        /\ UNCHANGED exc_info_from_callback]_vars

\* an error whose code is not a key was raised through the entry for None
\* of a dict assigned after the import, whose other entry says False
C20_Witness ==
    /\ event.what = "error_raised"
    /\ exc_info_from_callback = GLFWError(NOT_INITIALIZED)
    /\ ERROR_REPORTING.isdict
    /\ DOMAIN ERROR_REPORTING.entries = DictKeys
    /\ ERROR_REPORTING.entries[PLATFORM_ERROR] = "False"
    /\ ERROR_REPORTING.entries[NoneKey] = "exception"

(***************************************************************************)
(* The file-drop callback.                                                 *)
(***************************************************************************)
\* C22: when a host function was installed as file-drop callback on a
\* window, the next set_drop_callback on that window returns that host
\* function itself, not a wrapper around it.
C22_DropReturnsHostFunction ==
    (/\ hostResult.op = "set_window_callback"
     /\ hostResult.cbkind = "drop"
     /\ hostResult.kind = "return"
     /\ hostResult.expect \in UserFunctions) =>
        hostResult.val = hostResult.expect

(***************************************************************************)
(* User pointers of monitors and joysticks.                                *)
(***************************************************************************)
\* C23: set_monitor_user_pointer and set_joystick_user_pointer succeed,
\* leave the pointer word in the native user-pointer slot of that monitor or
\* joystick together with the side-table entry, and a following
\* get_monitor_user_pointer / get_joystick_user_pointer returns what was
\* passed: the host value, or the address of the raw pointer.
C23_HandleUserPointers ==
    /\ hostResult.op \in {"set_monitor_user_pointer", "set_joystick_user_pointer",
                          "get_monitor_user_pointer", "get_joystick_user_pointer"} =>
            hostResult.kind /= "raise"
    /\ \A joystick_id \in DOMAIN joystick_user_data_repository :
            glfw.joystick_userptr[joystick_id] =
                user_pointer_word(joystick_user_data_repository[joystick_id].pointer)
    /\ (hostResult.op = "get_joystick_user_pointer" /\ hostResult.kind = "return") =>
            hostResult.val = hostResult.expect

(***************************************************************************)
(* Where the pending-failure slot can be non-empty.                        *)
(***************************************************************************)
\* C24: the slot is non-empty only while a native call is the innermost
\* frame: it is empty in host code outside every native call and while a
\* callback body runs; a body starts only with the slot empty; the slot is
\* filled only by a callback raising, and while it is non-empty nothing
\* starts and the next return of the native call in progress empties it.
C24_SlotEmptyOutsideNativeCalls ==
    /\ [](Pending => InNative)
    /\ [][/\ event'.what = "run" => (~Pending /\ ~Pending')
          /\ (~Pending /\ Pending') =>
                /\ event'.what \in {"body_raised", "error_raised", "not_callable"}
                /\ InNative'
          /\ Pending => \/ stack' = stack
                        \/ NativeReturns /\ ~Pending']_vars

\* a callback body is running with a failure that the return of its own
\* nested call took out of the slot
C24_Witness ==
    /\ InBody
    /\ Top.exc = GLFWError(PLATFORM_ERROR)
    /\ event.what = "raised"
    /\ ~Pending

(***************************************************************************)
(* Teardown when the native call's return raises.                          *)
(***************************************************************************)
\* the side tables destroy_window and terminate clean up
window_tables ==
    <<callback_repositories, window_user_data_repository>>

\* the native call made by the host program is op and returns in this step
HostCallReturns(op) ==
    /\ Len(stack) = 1
    /\ Top.op = op
    /\ NativeReturns

\* C25: destroy_window leaves the side tables alone until its native call
\* has returned without raising: when a callback raised during the native
\* call, destroy_window raises that failure and every side-table entry stays,
\* the window's included.  terminate empties the per-window tables before
\* its native call: they are empty while the call is in progress and when
\* its return raises.
C25_CleanupOrder ==
    /\ [][/\ (InHost /\ stack' /= << >> /\ stack'[1].op = "destroy_window") =>
                UNCHANGED window_tables
          /\ (InNative /\ Top.op = "destroy_window" /\ ~NativeReturns) =>
                UNCHANGED window_tables
          /\ (HostCallReturns("destroy_window") /\ Pending) =>
                /\ hostResult'.kind = "raise"
                /\ hostResult'.exc = exc_info_from_callback
                /\ UNCHANGED window_tables
          /\ (HostCallReturns("destroy_window") /\ ~Pending) =>
                hostResult'.kind = "return"
          /\ (InHost /\ stack' /= << >> /\ stack'[1].op = "terminate") =>
                /\ window_user_data_repository' = EmptyDict
                /\ \A kind \in Kinds : callback_repositories'[kind] = EmptyDict
          /\ (HostCallReturns("terminate") /\ Pending) =>
                /\ hostResult'.kind = "raise"
                /\ hostResult'.exc = exc_info_from_callback
                /\ window_user_data_repository' = EmptyDict
                /\ \A kind \in Kinds : callback_repositories'[kind] = EmptyDict]_vars

\* destroy_window raised for a window at an address below the sign bit, and
\* the window's user pointer and callback record are still in the tables
C25_Witness ==
    /\ hostResult.op = "destroy_window"
    /\ hostResult.kind = "raise"
    /\ hostResult.exc = GLFWError(PLATFORM_ERROR)
    /\ hostResult.window = 2
    /\ c_long(2) \in DOMAIN window_user_data_repository
    /\ c_long(2) \in DOMAIN callback_repositories["pos"]

(***************************************************************************)
(* Callback registration when the native call's return raises.             *)
(***************************************************************************)
\* C26: when the return of the native registration call of a
\* set_<kind>_callback raises a pending failure, the caller gets the error
\* and no previous callback, the side table already holds the record of the
\* new callback (the user's function, or 0 for None), the native library
\* holds its trampoline, and the next installation for that window and kind
\* returns the new callback as previous.
C26_RecordWrittenBeforeCall ==
    [][(HostCallReturns("set_window_callback") /\ Pending) =>
          LET window_addr == c_long(Top.window)
              repository == callback_repositories'[Top.kind]
          IN  /\ hostResult'.kind = "raise"
              /\ hostResult'.exc = exc_info_from_callback
              /\ hostResult'.val = None
              /\ window_addr \in DOMAIN repository
              /\ repository[window_addr].cbfun = none_to_zero(Top.arg)
              /\ glfw'.callbacks[Top.window][Top.kind] = repository[window_addr].c_cbfun
              /\ previous_callback_returned(repository[window_addr].cbfun) = Top.arg]_vars

(***************************************************************************)
(* Native errors reported while a failure is pending.                      *)
(***************************************************************************)
\* C27: when the native library reports an error to the default error
\* handler while a callback failure is pending, the handler does nothing in
\* any reporting mode: it neither raises, warns nor logs, the slot keeps the
\* earlier failure, and the return of the native call in progress raises
\* that failure.
C27_ErrorDroppedWhilePending ==
    [][/\ \A c \in ErrorCodes :
              (glfw_error(c) /\ Pending) =>
                  /\ event'.what = "suppressed"
                  /\ event'.what \notin {"error_raised", "error_warned", "error_logged"}
                  /\ UNCHANGED <<exc_info_from_callback, stack, hostResult>>
       /\ (Pending /\ NativeReturns /\ Len(stack) = 1) =>
              /\ hostResult'.kind = "raise"
              /\ hostResult'.exc = exc_info_from_callback
              /\ hostResult'.exc /= NoExc]_vars

\* an error was reported in raise mode while the failure of the key
\* callback was pending
C27_Witness ==
    /\ event.what = "suppressed"
    /\ event.kind = "error"
    /\ exc_info_from_callback \in UserErrors
    /\ ERROR_REPORTING = Mode("raise")

(***************************************************************************)
(* Failures in native calls made by callback bodies.                       *)
(***************************************************************************)
\* C28: when a callback raises during a native call that a callback body
\* made, the return of that nested call empties the slot and raises the
\* failure in the body, host code seeing nothing yet; when the body lets it
\* escape, the same failure is stored in the slot again; the return of the
\* outer native call made by the host program then raises it in the host
\* program and leaves the slot empty, so that it is not raised again.
C28_NestedFailureReachesHost ==
    [][/\ (Pending /\ NativeReturns /\ Len(stack) > 1) =>
              /\ InBody'
              /\ stack'[Len(stack')].exc = exc_info_from_callback
              /\ ~Pending'
              /\ hostResult' = hostResult
       /\ (InBody /\ Top.exc /= NoExc /\ event'.what = "body_raised") =>
              /\ exc_info_from_callback' = Top.exc
              /\ stack' = Pop
              /\ InNative'
              /\ hostResult' = hostResult
       /\ (Pending /\ NativeReturns /\ Len(stack) = 1) =>
              /\ InHost'
              /\ hostResult'.kind = "raise"
              /\ hostResult'.exc = exc_info_from_callback
              /\ ~Pending'
       /\ (InHost /\ stack' /= << >>) => (~Pending /\ ~Pending')]_vars

\* the failure a nested call raised in a callback body escaped from the
\* body and is in the slot again, the host program's call still in progress
C28_Witness ==
    /\ event.what = "body_raised"
    /\ event.exc = GLFWError(PLATFORM_ERROR)
    /\ exc_info_from_callback = GLFWError(PLATFORM_ERROR)
    /\ InNative
    /\ Len(stack) = 1

(***************************************************************************)
(* Side-table keys.                                                        *)
(***************************************************************************)
\* C29: for every live window the key destroy_window computes (the address
\* read as an unsigned long) is the key the setters stored its entries under
\* (the address read as a signed long), so that destroy_window removes
\* them; and two distinct live windows have distinct keys.
C29_DestroyKeyIsSetterKey ==
    /\ \A window \in glfw.windows : c_ulong(window) = c_long(window)
    /\ \A window \in glfw.windows, other \in glfw.windows :
            window /= other =>
                /\ c_long(window) /= c_long(other)
                /\ c_ulong(window) /= c_ulong(other)
    /\ (hostResult.op = "destroy_window" /\ hostResult.kind = "return") =>
            /\ c_ulong(hostResult.window) \notin DOMAIN window_user_data_repository
            /\ c_long(hostResult.window) \notin DOMAIN window_user_data_repository
            /\ \A kind \in Kinds :
                  /\ c_ulong(hostResult.window) \notin DOMAIN callback_repositories[kind]
                  /\ c_long(hostResult.window) \notin DOMAIN callback_repositories[kind]

(***************************************************************************)
(* Which files are candidates.                                             *)
(***************************************************************************)
\* the search has gone through every library name for the directory entry
Searched ==
    glob_pc = Len(library_names) + 1

\* basename is prefix, then library_name, then remainder, prefix being
\* nothing or 'lib'
StripsTo(basename, library_name, remainder) ==
    \/ basename = library_name \o remainder
    \/ basename = lib \o library_name \o remainder

\* the ends of a string
Suffixes(string) ==
    {SubSeq(string, i, Len(string)) : i \in 1..(Len(string) + 1)}

\* remainder is an accepted extension followed by nothing or by a dot
ExtensionThenEndOrDot(remainder) ==
    \E i \in 1..Len(library_file_extensions), rest \in Suffixes(remainder) :
        /\ remainder = library_file_extensions[i] \o rest
        /\ rest = << >> \/ rest[1] = "."

\* remainder is digits and dots only, followed by an accepted extension
VersionThenExtension(remainder) ==
    \E i \in 1..Len(library_file_extensions) :
        \E n \in 0..Len(remainder) :
            /\ remainder = SubSeq(remainder, 1, n) \o library_file_extensions[i]
            /\ \A k \in 1..n : remainder[k] \in version_characters

\* the claim as it is worded: the resolved base name alone decides, and an
\* empty remainder or a single dot is accepted as well
AcceptedAsWorded(entry) ==
    \E i \in 1..Len(library_names), remainder \in Suffixes(entry.realpath) :
        /\ StripsTo(entry.realpath, library_names[i], remainder)
        /\ \/ remainder = << >>
           \/ remainder = <<".">>
           \/ ExtensionThenEndOrDot(remainder)
           \/ VersionThenExtension(remainder)

\* what the search accepts: for one and the same library name, the entry's
\* own name holds the library name followed by a dot, and the remainder of
\* the resolved base name is an extension followed by nothing or a dot, or
\* digits and dots followed by an extension
Accepted(entry) ==
    \E i \in 1..Len(library_names), remainder \in Suffixes(entry.realpath) :
        /\ \E before \in 0..Len(entry.name) :
              startswith(SubSeq(entry.name, before + 1, Len(entry.name)),
                         library_names[i] \o <<".">>)
        /\ StripsTo(entry.realpath, library_names[i], remainder)
        /\ \/ ExtensionThenEndOrDot(remainder)
           \/ VersionThenExtension(remainder)

\* C21 as worded: a file is a candidate exactly when the remainder of its
\* resolved base name, behind an optional 'lib' and a library name, is
\* empty, a dot, an extension followed by end-of-string or a dot, or digits
\* and dots followed by an extension.
C21_AcceptedAsWorded ==
    Searched =>
        (candidates /= << >>) = AcceptedAsWorded(dir_entry)

\* C21, amended: a directory entry whose own name matches the glob for a
\* library name (it holds that name followed by a dot) is a candidate, once,
\* exactly when the remainder of its resolved base name behind an optional
\* 'lib' and that library name is an extension followed by end-of-string or
\* a dot, or digits and dots followed by an extension; an empty remainder
\* and a single dot are rejected, like every other file.
C21_Accepted ==
    Searched =>
        candidates = IF Accepted(dir_entry) THEN <<dir_entry.realpath>> ELSE << >>

\* a symbolic link was followed to a file with a version between library
\* name and extension, which became the one candidate
C21_Witness ==
    /\ Searched
    /\ dir_entry.name /= dir_entry.realpath
    /\ candidates = <<dir_entry.realpath>>
    /\ \E remainder \in Suffixes(dir_entry.realpath) :
          /\ StripsTo(dir_entry.realpath, library_names[1], remainder)
          /\ VersionThenExtension(remainder)
          /\ ~ExtensionThenEndOrDot(remainder)

(***************************************************************************)
(* The probing locator and the order of the search directories.            *)
(***************************************************************************)
\* the valid candidates: the files reached from some search directory that
\* report a version >= (3, 0, 0)
Valid ==
    {file \in Supported :
        \E d \in DOMAIN filesystem.search_paths : file \in filesystem.search_paths[d]}

\* the valid candidate of the highest version and, among those of that
\* version, of the greatest canonical path
Greatest ==
    CHOOSE file \in Valid :
        \A other \in Valid :
            \/ other = file
            \/ filesystem.files[other].version /= filesystem.files[file].version
                   /\ VersionAtLeast(filesystem.files[file].version,
                                     filesystem.files[other].version)
            \/ filesystem.files[other].version = filesystem.files[file].version
                   /\ other < file

\* C30: in the probing locator the library loaded is a function of the set
\* of (version, canonical path) pairs of the valid candidates alone, whatever
\* the order of the search directories and of the probes: no canonical path
\* is a candidate or probed twice, and the file loaded is the one of the
\* highest version, of the greatest canonical path among those of that
\* version.
C30_LoadedIndependentOfSearchOrder ==
    /\ \A i \in 1..Len(candidates), j \in 1..Len(candidates) :
            i /= j => candidates[i] /= candidates[j]
    /\ \A i \in 1..Len(library_versions), j \in 1..Len(library_versions) :
            i /= j => library_versions[i].filename /= library_versions[j].filename
    /\ locator_pc = "done" =>
            IF Valid = {}
            THEN library = NoLibrary /\ loaded = {}
            ELSE library = CDLL(FilePath(Greatest)) /\ loaded = {FilePath(Greatest)}

\* the file loaded is reached from the later search directory only, while
\* the earlier directory holds a file of the same version and a smaller path
C30_Witness ==
    /\ locator_pc = "done"
    /\ library.state = "CDLL"
    /\ library.path.n \notin filesystem.search_paths[1]
    /\ library.path.n \in filesystem.search_paths[2]
    /\ \E file \in filesystem.search_paths[1] :
          /\ filesystem.files[file].version = filesystem.files[library.path.n].version
          /\ file < library.path.n
    /\ \E file \in Files : file \in filesystem.search_paths[1] \cap filesystem.search_paths[2]

====
